---- MODULE Spec2Model ----
(***************************************************************************)
(* ca-switch: the configuration reference-resolution and multi-format      *)
(* synchronization engine (src/src/config).                                *)
(*                                                                         *)
(* The state is the set of documents the program keeps on disk: one        *)
(* credential store per family under ~/.cc-cli, the global reference       *)
(* store ~/.cc-cli/config.json, and each family's external target file(s). *)
(* Every operation of the program re-reads the documents it needs and      *)
(* writes whole documents back, so the documents are the whole state.      *)
(*                                                                         *)
(* Conventions:                                                            *)
(*   Option<T>      None is <<>>, Some(x) is <<x>>                         *)
(*   Result<T, E>   [ok, val, err]; val is <<v>> (<<>> for unit), err is   *)
(*                  the message as the sequence of its literal pieces and  *)
(*                  formatted arguments (format!("... '{}' ...", a))       *)
(*   the source's Chinese message literals are written as ASCII glosses;   *)
(*   distinct literals stay distinct                                       *)
(***************************************************************************)
EXTENDS Integers, Sequences, FiniteSets, TLC

VARIABLES
    family,               \* the command module the session runs: cc claude | codex | ...
    now,                  \* chrono::Utc::now(), as a counter
    in_flight,            \* calls of concurrent runs between their read and their write
    global_config_file,   \* ~/.cc-cli/config.json     (GlobalConfig)
    claude_config_file,   \* ~/.cc-cli/claude.json     (ClaudeConfig)
    settings_file,        \* ~/.claude/settings.json   (shared with the user and the tool)
    codex_config_file,    \* ~/.cc-cli/codex.json      (CodexConfig)
    codex_auth_json,      \* ~/.codex/auth.json
    codex_config_toml,    \* ~/.codex/config.toml
    gemini_config_file,   \* ~/.cc-cli/gemini.json     (GeminiConfig)
    gemini_env_file,      \* ~/.gemini/.env
    gemini_settings_file, \* ~/.gemini/settings.json   (the user's)
    opencode_config_file, \* ~/.cc-cli/opencode.json   (OpenCodeConfig)
    opencode_json,        \* ~/.opencode/opencode.json
    target_dirs,          \* which of ~/.claude, ~/.codex, ~/.gemini, ~/.opencode exist
    last                  \* the last call: [op, args, ret]

claude_files == <<claude_config_file, settings_file>>
codex_files == <<codex_config_file, codex_auth_json, codex_config_toml>>
gemini_files == <<gemini_config_file, gemini_env_file, gemini_settings_file>>
opencode_files == <<opencode_config_file, opencode_json>>
vars == <<family, now, in_flight, global_config_file, claude_files, codex_files, gemini_files,
          opencode_files, target_dirs, last>>

(***************************************************************************)
(* Bounds of the model.                                                    *)
(***************************************************************************)
NumSecretValues == 2

Sites == {"acme", "beta"}
SecretNames == {"primary"}
SecretValueSeq == <<"sk-123", "sk-456", "sk-789">>
SecretValues == {SecretValueSeq[i] : i \in 1..NumSecretValues}

(***************************************************************************)
(* Option, Result and finite maps.                                         *)
(***************************************************************************)
None == <<>>
Some(x) == <<x>>
is_some(o) == o # <<>>
unwrap(o) == o[1]

Ok(v) == [ok |-> TRUE, val |-> <<v>>, err |-> <<>>]
OkUnit == [ok |-> TRUE, val |-> <<>>, err |-> <<>>]
Err(m) == [ok |-> FALSE, val |-> <<>>, err |-> m]

EmptyMap == [k \in {} |-> 0]
contains_key(m, k) == k \in DOMAIN m
insert(m, k, v) == [j \in DOMAIN m \cup {k} |-> IF j = k THEN v ELSE m[j]]
remove(m, k) == [j \in DOMAIN m \ {k} |-> m[j]]
get(m, k) == IF k \in DOMAIN m THEN Some(m[k]) ELSE None

(***************************************************************************)
(* fs::write(path, content) under the faults of one call: `fails` is the   *)
(* set of files whose write fails in this call (permissions); a failed     *)
(* write leaves the file as it was.                                        *)
(***************************************************************************)
write_fails(path, fails) == path \in fails

\* dir.exists(), and the directories after `if !dir.exists() { create_dir_all(dir) }`
dir_exists(dir) == dir \in target_dirs
create_dir_all(dir) == target_dirs \cup {dir}

default_timestamp == now

(***************************************************************************)
(* models.rs: the Claude credential store.                                 *)
(***************************************************************************)
VertexConfig_default ==
    [enabled |-> FALSE, project_id |-> None, base_url |-> None, skip_auth |-> FALSE]

ClaudeSiteConfig_default ==
    [base_url |-> None, model |-> None, vertex |-> VertexConfig_default]

ClaudeSite_new(url, description) ==
    [metadata |-> [url |-> url, description |-> description,
                   created_at |-> default_timestamp, updated_at |-> default_timestamp],
     tokens |-> EmptyMap,
     config |-> ClaudeSiteConfig_default]

ClaudeConfig_new == [version |-> "3.0.0", sites |-> EmptyMap]

update_timestamp(site) == [site EXCEPT !.metadata.updated_at = default_timestamp]

ClaudeSite_get_token(site, token_name) == get(site.tokens, token_name)

\* an add_token that keeps the value a name already has
ClaudeSite_add_token_keeping(site, token_name, token) ==
    update_timestamp([site EXCEPT !.tokens =
        IF contains_key(site.tokens, token_name) THEN site.tokens
        ELSE insert(site.tokens, token_name, token)])

ClaudeSite_add_token(site, token_name, token) ==
    update_timestamp([site EXCEPT !.tokens = insert(site.tokens, token_name, token)])

\* returns the site after the call and the removed value
ClaudeSite_remove_token(site, token_name) ==
    LET result == get(site.tokens, token_name)
        site1 == [site EXCEPT !.tokens = remove(site.tokens, token_name)]
    IN [site |-> IF is_some(result) THEN update_timestamp(site1) ELSE site1,
        result |-> result]

(***************************************************************************)
(* claude_manager.rs: reading and writing ~/.cc-cli/claude.json.           *)
(* A document on disk is [exists, parses, doc].                            *)
(***************************************************************************)
NoFile == [exists |-> FALSE, parses |-> FALSE, doc |-> <<>>]
FileOf(d) == [exists |-> TRUE, parses |-> TRUE, doc |-> <<d>>]
Garbage == [exists |-> TRUE, parses |-> FALSE, doc |-> <<>>]

claude_read_config ==
    IF ~claude_config_file.exists THEN Ok(ClaudeConfig_new)
    ELSE IF ~claude_config_file.parses THEN Err(<<"parsing the config file failed">>)
    ELSE Ok(claude_config_file.doc[1])

\* the document after write_config(config), and the call's result
claude_write_config(config, fails) ==
    IF write_fails("claude.json", fails)
    THEN [file |-> claude_config_file, ret |-> Err(<<"writing the config file failed">>)]
    ELSE [file |-> FileOf(config), ret |-> OkUnit]

Unchanged(file, ret) == [file |-> file, ret |-> ret]

claude_get_site(site_name) ==
    LET r == claude_read_config
    IN IF ~r.ok THEN r ELSE Ok(get(unwrap(r.val).sites, site_name))

site_missing(site_name) == <<"site '", site_name, "' does not exist">>

claude_add_site(site_name, url, description, fails) ==
    LET r == claude_read_config IN
    IF ~r.ok THEN Unchanged(claude_config_file, r) ELSE
    LET config == unwrap(r.val) IN
    IF contains_key(config.sites, site_name)
    THEN Unchanged(claude_config_file, Err(<<"site '", site_name, "' already exists">>))
    ELSE claude_write_config(
            [config EXCEPT !.sites = insert(config.sites, site_name,
                                            ClaudeSite_new(url, description))], fails)

claude_update_site_metadata(site_name, url, description, fails) ==
    LET r == claude_read_config IN
    IF ~r.ok THEN Unchanged(claude_config_file, r) ELSE
    LET config == unwrap(r.val) IN
    IF ~contains_key(config.sites, site_name)
    THEN Unchanged(claude_config_file, Err(site_missing(site_name)))
    ELSE LET site == config.sites[site_name]
             s1 == IF is_some(url) THEN [site EXCEPT !.metadata.url = unwrap(url)] ELSE site
             s2 == IF is_some(description)
                   THEN [s1 EXCEPT !.metadata.description = Some(unwrap(description))]
                   ELSE s1
         IN claude_write_config(
                [config EXCEPT !.sites = insert(config.sites, site_name,
                                                update_timestamp(s2))], fails)

claude_update_site_config(site_name, base_url, model, vertex, fails) ==
    LET r == claude_read_config IN
    IF ~r.ok THEN Unchanged(claude_config_file, r) ELSE
    LET config == unwrap(r.val) IN
    IF ~contains_key(config.sites, site_name)
    THEN Unchanged(claude_config_file, Err(site_missing(site_name)))
    ELSE LET site == config.sites[site_name]
             s1 == IF is_some(base_url)
                   THEN [site EXCEPT !.config.base_url = Some(unwrap(base_url))] ELSE site
             s2 == IF is_some(model)
                   THEN [s1 EXCEPT !.config.model = Some(unwrap(model))] ELSE s1
             s3 == IF is_some(vertex)
                   THEN [s2 EXCEPT !.config.vertex = unwrap(vertex)] ELSE s2
         IN claude_write_config(
                [config EXCEPT !.sites = insert(config.sites, site_name,
                                                update_timestamp(s3))], fails)

claude_remove_site(site_name, fails) ==
    LET r == claude_read_config IN
    IF ~r.ok THEN Unchanged(claude_config_file, r) ELSE
    LET config == unwrap(r.val) IN
    IF ~contains_key(config.sites, site_name)
    THEN Unchanged(claude_config_file, Err(site_missing(site_name)))
    ELSE claude_write_config(
            [config EXCEPT !.sites = remove(config.sites, site_name)], fails)

claude_add_token(site_name, token_name, token, fails) ==
    LET r == claude_read_config IN
    IF ~r.ok THEN Unchanged(claude_config_file, r) ELSE
    LET config == unwrap(r.val) IN
    IF ~contains_key(config.sites, site_name)
    THEN Unchanged(claude_config_file, Err(site_missing(site_name)))
    ELSE LET site == config.sites[site_name] IN
         IF contains_key(site.tokens, token_name)
         THEN Unchanged(claude_config_file,
                  Err(<<"Token '", token_name, "' already exists in site '", site_name, "'">>))
         ELSE claude_write_config(
                [config EXCEPT !.sites = insert(config.sites, site_name,
                     ClaudeSite_add_token(site, token_name, token))], fails)

token_missing(token_name, site_name) ==
    <<"Token '", token_name, "' does not exist in site '", site_name, "'">>

claude_update_token(site_name, token_name, new_token, fails) ==
    LET r == claude_read_config IN
    IF ~r.ok THEN Unchanged(claude_config_file, r) ELSE
    LET config == unwrap(r.val) IN
    IF ~contains_key(config.sites, site_name)
    THEN Unchanged(claude_config_file, Err(site_missing(site_name)))
    ELSE LET site == config.sites[site_name] IN
         IF ~contains_key(site.tokens, token_name)
         THEN Unchanged(claude_config_file, Err(token_missing(token_name, site_name)))
         ELSE claude_write_config(
                [config EXCEPT !.sites = insert(config.sites, site_name,
                     ClaudeSite_add_token(site, token_name, new_token))], fails)

claude_remove_token(site_name, token_name, fails) ==
    LET r == claude_read_config IN
    IF ~r.ok THEN Unchanged(claude_config_file, r) ELSE
    LET config == unwrap(r.val) IN
    IF ~contains_key(config.sites, site_name)
    THEN Unchanged(claude_config_file, Err(site_missing(site_name)))
    ELSE LET rm == ClaudeSite_remove_token(config.sites[site_name], token_name) IN
         IF ~is_some(rm.result)
         THEN Unchanged(claude_config_file, Err(token_missing(token_name, site_name)))
         ELSE claude_write_config(
                [config EXCEPT !.sites = insert(config.sites, site_name, rm.site)], fails)

(***************************************************************************)
(* serde_json::Value, as far as settings.json needs it: [t, s, o] with     *)
(* t the kind, s the text of a scalar, o the members of an object.         *)
(***************************************************************************)
JNull == [t |-> "null", s |-> "", o |-> EmptyMap]
JStr(s) == [t |-> "str", s |-> s, o |-> EmptyMap]
JNum(s) == [t |-> "num", s |-> s, o |-> EmptyMap]
JArr(s) == [t |-> "arr", s |-> s, o |-> EmptyMap]
JObj(o) == [t |-> "obj", s |-> "", o |-> o]
is_object(v) == v.t = "obj"

\* Value::get(key): None unless the value is an object holding the key
json_get(v, key) == IF is_object(v) THEN get(v.o, key) ELSE None

\* Faulty variant: the new env replaces the env object instead of merging into it.
replace_env(target, source) == source

RECURSIVE deep_merge(_, _)
RECURSIVE merge_entries(_, _, _)

\* for (key, value) in source_obj { .. }: the entries of the source, one by one,
\* go into the target object
merge_entries(target_obj, source_obj, keys) ==
    IF keys = {} THEN target_obj
    ELSE LET key == CHOOSE k \in keys : TRUE
             value == source_obj[key]
             merged ==
                 IF contains_key(target_obj, key)
                 THEN IF is_object(target_obj[key]) /\ is_object(value)
                      THEN insert(target_obj, key, deep_merge(target_obj[key], value))
                      ELSE insert(target_obj, key, value)
                 ELSE insert(target_obj, key, value)
         IN merge_entries(merged, source_obj, keys \ {key})

\* a merge that does not recurse: an object of the source replaces the target's
deep_merge_shallow(target, source) ==
    IF is_object(target) /\ is_object(source)
    THEN JObj([key \in DOMAIN target.o \cup DOMAIN source.o |->
                 IF key \in DOMAIN source.o THEN source.o[key] ELSE target.o[key]])
    ELSE target

deep_merge(target, source) ==
    IF is_object(target) /\ is_object(source)
    THEN JObj(merge_entries(target.o, source.o, DOMAIN source.o))
    ELSE target

RECURSIVE remove_all(_, _)
remove_all(m, keys) ==
    IF keys = {} THEN m
    ELSE LET k == CHOOSE x \in keys : TRUE IN remove_all(remove(m, k), keys \ {k})

\* the keys sync_to_settings removes at the top level, and inside env
OwnedTopKeys ==
    {"ANTHROPIC_AUTH_TOKEN", "ANTHROPIC_BASE_URL", "ANTHROPIC_VERTEX_BASE_URL",
     "ANTHROPIC_VERTEX_PROJECT_ID", "CLAUDE_CODE_USE_VERTEX",
     "CLAUDE_CODE_SKIP_VERTEX_AUTH"}
OwnedEnvKeys == OwnedTopKeys \cup {"CLAUDE_CODE_DISABLE_NONESSENTIAL_TRAFFIC"}

\* the env object sync_to_settings builds for the active configuration
new_env(active_config) ==
    LET e0 == insert(EmptyMap, "ANTHROPIC_AUTH_TOKEN", JStr(active_config.token))
        v == active_config.vertex
        e1 == insert(e0, "CLAUDE_CODE_USE_VERTEX", JStr("1"))
        e2 == IF is_some(v.project_id)
              THEN insert(e1, "ANTHROPIC_VERTEX_PROJECT_ID", JStr(unwrap(v.project_id)))
              ELSE e1
        e3 == IF is_some(v.base_url)
              THEN insert(e2, "ANTHROPIC_VERTEX_BASE_URL", JStr(unwrap(v.base_url)))
              ELSE e2
        e4 == IF v.skip_auth THEN insert(e3, "CLAUDE_CODE_SKIP_VERTEX_AUTH", JStr("1"))
              ELSE e3
        e5 == insert(e4, "CLAUDE_CODE_DISABLE_NONESSENTIAL_TRAFFIC", JStr("1"))
    IN JObj(IF v.enabled THEN e5
            ELSE IF is_some(active_config.base_url)
                 THEN insert(e0, "ANTHROPIC_BASE_URL", JStr(unwrap(active_config.base_url)))
                 ELSE e0)

IndexPanic == Err(<<"panic: cannot access key in JSON value">>)

\* Faulty variant: a settings file that does not parse fails the call.
sync_to_settings_strict(active_config, fails) ==
    LET settings0 == IF settings_file.exists /\ settings_file.parses
                     THEN settings_file.doc[1] ELSE JObj(EmptyMap)
        \* strip the owned keys at the top level
        settings1 == IF is_object(settings0)
                     THEN JObj(remove_all(settings0.o, OwnedTopKeys)) ELSE settings0
        has_env == is_some(json_get(settings1, "env"))
        \* settings["env"] = {}: IndexMut turns null into an object, inserts
        \* into an object, and panics on any other value
        panics == ~has_env /\ ~is_object(settings1) /\ settings1.t # "null"
        settings2 == IF has_env THEN settings1
                     ELSE IF is_object(settings1)
                          THEN JObj(insert(settings1.o, "env", JObj(EmptyMap)))
                          ELSE JObj(insert(EmptyMap, "env", JObj(EmptyMap)))
        env0 == settings2.o["env"]
        \* strip the owned keys inside env, then merge the new env into it
        env1 == IF is_object(env0) THEN JObj(remove_all(env0.o, OwnedEnvKeys)) ELSE env0
        env2 == deep_merge(env1, new_env(active_config))
        settings3 == JObj(insert(settings2.o, "env", env2))
    IN IF settings_file.exists /\ ~settings_file.parses
       THEN Unchanged(settings_file, Err(<<"parsing settings.json failed">>))
       ELSE IF panics THEN Unchanged(settings_file, IndexPanic)
       \* fs::write does not create ~/.claude: without it the write fails
       ELSE IF write_fails("settings.json", fails) \/ ~dir_exists(".claude")
            THEN Unchanged(settings_file, Err(<<"writing settings.json failed">>))
            ELSE [file |-> FileOf(settings3), ret |-> OkUnit]

\* sync_to_settings(active_config): the settings file after the call and the result
sync_to_settings(active_config, fails) ==
    LET settings0 == IF settings_file.exists /\ settings_file.parses
                     THEN settings_file.doc[1] ELSE JObj(EmptyMap)
        \* strip the owned keys at the top level
        settings1 == IF is_object(settings0)
                     THEN JObj(remove_all(settings0.o, OwnedTopKeys)) ELSE settings0
        has_env == is_some(json_get(settings1, "env"))
        \* settings["env"] = {}: IndexMut turns null into an object, inserts
        \* into an object, and panics on any other value
        panics == ~has_env /\ ~is_object(settings1) /\ settings1.t # "null"
        settings2 == IF has_env THEN settings1
                     ELSE IF is_object(settings1)
                          THEN JObj(insert(settings1.o, "env", JObj(EmptyMap)))
                          ELSE JObj(insert(EmptyMap, "env", JObj(EmptyMap)))
        env0 == settings2.o["env"]
        \* strip the owned keys inside env, then merge the new env into it
        env1 == IF is_object(env0) THEN JObj(remove_all(env0.o, OwnedEnvKeys)) ELSE env0
        env2 == deep_merge(env1, new_env(active_config))
        settings3 == JObj(insert(settings2.o, "env", env2))
    IN IF panics THEN Unchanged(settings_file, IndexPanic)
       \* fs::write does not create ~/.claude: without it the write fails
       ELSE IF write_fails("settings.json", fails) \/ ~dir_exists(".claude")
            THEN Unchanged(settings_file, Err(<<"writing settings.json failed">>))
            ELSE [file |-> FileOf(settings3), ret |-> OkUnit]

(***************************************************************************)
(* models.rs / manager.rs: the global reference store config.json.         *)
(***************************************************************************)
ActiveConfigs_default ==
    [claude |-> None, codex |-> None, gemini |-> None, opencode |-> None]

GlobalConfig_new ==
    [version |-> "3.0.0", active |-> ActiveConfigs_default,
     metadata |-> [created_at |-> default_timestamp, updated_at |-> default_timestamp]]

GlobalConfig_update_timestamp(config) ==
    [config EXCEPT !.metadata.updated_at = default_timestamp]

\* a serialization that leaves out the opencode reference
serialize_global_config_skipping(config) ==
    [version |-> config.version,
     active |-> [fam \in {f \in DOMAIN config.active \ {"opencode"} :
                             is_some(config.active[f])} |->
                   unwrap(config.active[fam])],
     metadata |-> config.metadata]

\* Serialize for GlobalConfig: the document on disk.  The references are
\* skip_serializing_if = "Option::is_none": `active` holds a key per reference
\* that is there.
serialize_global_config(config) ==
    [version |-> config.version,
     active |-> [fam \in {f \in DOMAIN config.active : is_some(config.active[f])} |->
                   unwrap(config.active[fam])],
     metadata |-> config.metadata]

\* Deserialize for GlobalConfig: an Option field without its key is None
deserialize_global_config(data) ==
    [version |-> data.version,
     active |-> [fam \in DOMAIN ActiveConfigs_default |->
                   IF fam \in DOMAIN data.active THEN Some(data.active[fam]) ELSE None],
     metadata |-> data.metadata]

\* a read for which a missing config.json is an error
read_global_config_strict(file) ==
    IF ~file.exists THEN Err(<<"reading the global config failed">>)
    ELSE IF ~file.parses THEN Err(<<"parsing the global config failed">>)
    ELSE Ok(deserialize_global_config(file.doc[1]))

read_global_config(file) ==
    IF ~file.exists THEN Ok(GlobalConfig_new)
    ELSE IF ~file.parses THEN Err(<<"parsing the global config failed">>)
    ELSE Ok(deserialize_global_config(file.doc[1]))

write_global_config(file, config, fails) ==
    IF write_fails("config.json", fails)
    THEN Unchanged(file, Err(<<"writing the global config failed">>))
    ELSE [file |-> FileOf(serialize_global_config(config)), ret |-> OkUnit]

(***************************************************************************)
(* Claude: resolution, switch, clear.                                      *)
(***************************************************************************)
ClaudeActiveReference(site, token_name) == [site |-> site, token_name |-> token_name]

\* Faulty variant: takes the site URL from the site's base URL when one is set.
ClaudeActiveConfig_from_base_url(reference, site) ==
    LET token == get(site.tokens, reference.token_name) IN
    IF ~is_some(token)
    THEN Err(<<"Token '", reference.token_name, "' not found in site '", reference.site, "'">>)
    ELSE Ok([site |-> reference.site,
             site_url |-> IF is_some(site.config.base_url)
                          THEN unwrap(site.config.base_url) ELSE site.metadata.url,
             site_description |-> site.metadata.description,
             token_name |-> reference.token_name,
             token |-> unwrap(token),
             base_url |-> site.config.base_url,
             model |-> site.config.model,
             vertex |-> site.config.vertex])

\* Faulty variant: a missing token resolves to a configuration with an empty token.
ClaudeActiveConfig_defaulting(reference, site) ==
    LET token == get(site.tokens, reference.token_name) IN
    Ok([site |-> reference.site,
        site_url |-> site.metadata.url,
        site_description |-> site.metadata.description,
        token_name |-> reference.token_name,
        token |-> IF is_some(token) THEN unwrap(token) ELSE "",
        base_url |-> site.config.base_url,
        model |-> site.config.model,
        vertex |-> site.config.vertex])

ClaudeActiveConfig_from_reference(reference, site) ==
    LET token == get(site.tokens, reference.token_name) IN
    IF ~is_some(token)
    THEN Err(<<"Token '", reference.token_name, "' not found in site '", reference.site, "'">>)
    ELSE Ok([site |-> reference.site,
             site_url |-> site.metadata.url,
             site_description |-> site.metadata.description,
             token_name |-> reference.token_name,
             token |-> unwrap(token),
             base_url |-> site.config.base_url,
             model |-> site.config.model,
             vertex |-> site.config.vertex])

\* Faulty variant: a reference to a missing site reads as no active configuration.
get_active_claude_config_silent(file) ==
    LET g == read_global_config(file) IN
    IF ~g.ok THEN g ELSE
    LET reference == unwrap(g.val).active.claude IN
    IF ~is_some(reference) THEN Ok(None) ELSE
    LET s == claude_get_site(unwrap(reference).site) IN
    IF ~s.ok THEN s ELSE
    IF ~is_some(unwrap(s.val)) THEN Ok(None) ELSE
    LET a == ClaudeActiveConfig_from_reference(unwrap(reference), unwrap(unwrap(s.val))) IN
    IF ~a.ok THEN a ELSE Ok(Some(unwrap(a.val)))

\* get_active_claude_config, reading config.json as `file`
get_active_claude_config(file) ==
    LET g == read_global_config(file) IN
    IF ~g.ok THEN g ELSE
    LET reference == unwrap(g.val).active.claude IN
    IF ~is_some(reference) THEN Ok(None) ELSE
    LET s == claude_get_site(unwrap(reference).site) IN
    IF ~s.ok THEN s ELSE
    IF ~is_some(unwrap(s.val)) THEN Err(site_missing(unwrap(reference).site)) ELSE
    LET a == ClaudeActiveConfig_from_reference(unwrap(reference), unwrap(unwrap(s.val))) IN
    IF ~a.ok THEN a ELSE Ok(Some(unwrap(a.val)))

\* the result of a manager call: config.json and the target file after it
Outcome(cfg, target, ret) ==
    [global_config_file |-> cfg, target |-> target, dirs |-> target_dirs, ret |-> ret]

\* Faulty variant: restores config.json when the synchronizer fails.
switch_claude_config_rollback(site_name, token_name, fails) ==
    LET s == claude_get_site(site_name) IN
    IF ~s.ok THEN Outcome(global_config_file, settings_file, s) ELSE
    IF ~is_some(unwrap(s.val))
    THEN Outcome(global_config_file, settings_file, Err(site_missing(site_name))) ELSE
    IF ~contains_key(unwrap(unwrap(s.val)).tokens, token_name)
    THEN Outcome(global_config_file, settings_file, Err(token_missing(token_name, site_name))) ELSE
    LET g == read_global_config(global_config_file) IN
    IF ~g.ok THEN Outcome(global_config_file, settings_file, g) ELSE
    LET global_config == GlobalConfig_update_timestamp(
            [unwrap(g.val) EXCEPT !.active.claude =
                 Some(ClaudeActiveReference(site_name, token_name))])
        w == write_global_config(global_config_file, global_config, fails) IN
    IF ~w.ret.ok THEN Outcome(w.file, settings_file, w.ret) ELSE
    LET a == get_active_claude_config(w.file) IN
    IF ~a.ok THEN Outcome(global_config_file, settings_file, a) ELSE
    IF ~is_some(unwrap(a.val))
    THEN Outcome(global_config_file, settings_file,
                 Err(<<"cannot get the active Claude config">>)) ELSE
    LET y == sync_to_settings(unwrap(unwrap(a.val)), fails) IN
    Outcome(IF y.ret.ok THEN w.file ELSE global_config_file, y.file, y.ret)

switch_claude_config(site_name, token_name, fails) ==
    LET s == claude_get_site(site_name) IN
    IF ~s.ok THEN Outcome(global_config_file, settings_file, s) ELSE
    IF ~is_some(unwrap(s.val))
    THEN Outcome(global_config_file, settings_file, Err(site_missing(site_name))) ELSE
    IF ~contains_key(unwrap(unwrap(s.val)).tokens, token_name)
    THEN Outcome(global_config_file, settings_file, Err(token_missing(token_name, site_name))) ELSE
    LET g == read_global_config(global_config_file) IN
    IF ~g.ok THEN Outcome(global_config_file, settings_file, g) ELSE
    LET global_config == GlobalConfig_update_timestamp(
            [unwrap(g.val) EXCEPT !.active.claude =
                 Some(ClaudeActiveReference(site_name, token_name))])
        w == write_global_config(global_config_file, global_config, fails) IN
    IF ~w.ret.ok THEN Outcome(w.file, settings_file, w.ret) ELSE
    LET a == get_active_claude_config(w.file) IN
    IF ~a.ok THEN Outcome(w.file, settings_file, a) ELSE
    IF ~is_some(unwrap(a.val))
    THEN Outcome(w.file, settings_file, Err(<<"cannot get the active Claude config">>)) ELSE
    LET y == sync_to_settings(unwrap(unwrap(a.val)), fails) IN
    Outcome(w.file, y.file, y.ret)

clear_claude_active(fails) ==
    LET g == read_global_config(global_config_file) IN
    IF ~g.ok THEN Unchanged(global_config_file, g) ELSE
    write_global_config(global_config_file,
        GlobalConfig_update_timestamp([unwrap(g.val) EXCEPT !.active.claude = None]), fails)

(***************************************************************************)
(* Codex: the credential store ~/.cc-cli/codex.json (models.rs,            *)
(* codex_manager.rs).                                                      *)
(***************************************************************************)
CodexSiteConfig_default ==
    [base_url |-> None, model |-> None, model_reasoning_effort |-> None,
     model_provider |-> None, network_access |-> None,
     disable_response_storage |-> None, wire_api |-> None]

CodexSite_new(url, description) ==
    [metadata |-> [url |-> url, description |-> description,
                   created_at |-> default_timestamp, updated_at |-> default_timestamp],
     api_keys |-> EmptyMap,
     config |-> CodexSiteConfig_default]

CodexConfig_new == [version |-> "3.0.0", sites |-> EmptyMap]

CodexSite_add_api_key(site, key_name, api_key) ==
    update_timestamp([site EXCEPT !.api_keys = insert(site.api_keys, key_name, api_key)])

\* bumps updated_at whether or not the key was there
CodexSite_remove_api_key(site, key_name) ==
    [site |-> update_timestamp([site EXCEPT !.api_keys = remove(site.api_keys, key_name)]),
     result |-> get(site.api_keys, key_name)]

\* Faulty variant: a store file that does not parse reads as the empty store.
codex_read_config_recovering ==
    IF ~codex_config_file.exists \/ ~codex_config_file.parses THEN Ok(CodexConfig_new)
    ELSE Ok(codex_config_file.doc[1])

codex_read_config ==
    IF ~codex_config_file.exists THEN Ok(CodexConfig_new)
    ELSE IF ~codex_config_file.parses THEN Err(<<"parsing codex.json failed">>)
    ELSE Ok(codex_config_file.doc[1])

codex_write_config(config, fails) ==
    IF write_fails("codex.json", fails)
    THEN Unchanged(codex_config_file, Err(<<"writing codex.json failed">>))
    ELSE [file |-> FileOf(config), ret |-> OkUnit]

codex_get_site(site_name) ==
    LET r == codex_read_config
    IN IF ~r.ok THEN r ELSE Ok(get(unwrap(r.val).sites, site_name))

codex_add_site(site_name, url, description, fails) ==
    LET r == codex_read_config IN
    IF ~r.ok THEN Unchanged(codex_config_file, r) ELSE
    LET config == unwrap(r.val) IN
    IF contains_key(config.sites, site_name)
    THEN Unchanged(codex_config_file, Err(<<"site '", site_name, "' already exists">>))
    ELSE codex_write_config(
            [config EXCEPT !.sites = insert(config.sites, site_name,
                                            CodexSite_new(url, description))], fails)

codex_update_site_metadata(site_name, url, description, fails) ==
    LET r == codex_read_config IN
    IF ~r.ok THEN Unchanged(codex_config_file, r) ELSE
    LET config == unwrap(r.val) IN
    IF ~contains_key(config.sites, site_name)
    THEN Unchanged(codex_config_file, Err(site_missing(site_name)))
    ELSE LET site == config.sites[site_name]
             s1 == IF is_some(url) THEN [site EXCEPT !.metadata.url = unwrap(url)] ELSE site
             s2 == IF is_some(description)
                   THEN [s1 EXCEPT !.metadata.description = description] ELSE s1
         IN codex_write_config(
                [config EXCEPT !.sites = insert(config.sites, site_name,
                                                update_timestamp(s2))], fails)

codex_delete_site(site_name, fails) ==
    LET r == codex_read_config IN
    IF ~r.ok THEN Unchanged(codex_config_file, r) ELSE
    LET config == unwrap(r.val) IN
    IF ~contains_key(config.sites, site_name)
    THEN Unchanged(codex_config_file, Err(site_missing(site_name)))
    ELSE codex_write_config(
            [config EXCEPT !.sites = remove(config.sites, site_name)], fails)

\* one field of a sparse patch: Some(v) overwrites, None leaves the field
\* Faulty variant: the parameter is assigned as it is, None included.
patch_assigning(old, new) == new

patch(old, new) == IF is_some(new) THEN Some(unwrap(new)) ELSE old

\* `p` is the patch: one Option per field of CodexSiteConfig
codex_update_site_config(site_name, p, fails) ==
    LET r == codex_read_config IN
    IF ~r.ok THEN Unchanged(codex_config_file, r) ELSE
    LET config == unwrap(r.val) IN
    IF ~contains_key(config.sites, site_name)
    THEN Unchanged(codex_config_file, Err(site_missing(site_name)))
    ELSE LET site == config.sites[site_name]
             c == site.config
             c1 == [base_url |-> patch(c.base_url, p.base_url),
                    model |-> patch(c.model, p.model),
                    model_reasoning_effort |->
                        patch(c.model_reasoning_effort, p.model_reasoning_effort),
                    model_provider |-> patch(c.model_provider, p.model_provider),
                    network_access |-> patch(c.network_access, p.network_access),
                    disable_response_storage |->
                        patch(c.disable_response_storage, p.disable_response_storage),
                    wire_api |-> patch(c.wire_api, p.wire_api)]
         IN codex_write_config(
                [config EXCEPT !.sites = insert(config.sites, site_name,
                     update_timestamp([site EXCEPT !.config = c1]))], fails)

api_key_missing(key_name, site_name) ==
    <<"API Key '", key_name, "' does not exist in site '", site_name, "'">>
api_key_exists(key_name, site_name) ==
    <<"API Key '", key_name, "' already exists in site '", site_name, "'">>

codex_add_api_key(site_name, key_name, api_key, fails) ==
    LET r == codex_read_config IN
    IF ~r.ok THEN Unchanged(codex_config_file, r) ELSE
    LET config == unwrap(r.val) IN
    IF ~contains_key(config.sites, site_name)
    THEN Unchanged(codex_config_file, Err(site_missing(site_name)))
    ELSE LET site == config.sites[site_name] IN
         IF contains_key(site.api_keys, key_name)
         THEN Unchanged(codex_config_file, Err(api_key_exists(key_name, site_name)))
         ELSE codex_write_config(
                [config EXCEPT !.sites = insert(config.sites, site_name,
                     CodexSite_add_api_key(site, key_name, api_key))], fails)

\* Faulty variant: an update of a key name the site lacks adds the key.
codex_update_api_key_upsert(site_name, key_name, new_api_key, fails) ==
    LET r == codex_read_config IN
    IF ~r.ok THEN Unchanged(codex_config_file, r) ELSE
    LET config == unwrap(r.val) IN
    IF ~contains_key(config.sites, site_name)
    THEN Unchanged(codex_config_file, Err(site_missing(site_name)))
    ELSE codex_write_config(
            [config EXCEPT !.sites = insert(config.sites, site_name,
                 CodexSite_add_api_key(config.sites[site_name], key_name, new_api_key))],
            fails)

codex_update_api_key(site_name, key_name, new_api_key, fails) ==
    LET r == codex_read_config IN
    IF ~r.ok THEN Unchanged(codex_config_file, r) ELSE
    LET config == unwrap(r.val) IN
    IF ~contains_key(config.sites, site_name)
    THEN Unchanged(codex_config_file, Err(site_missing(site_name)))
    ELSE LET site == config.sites[site_name] IN
         IF ~contains_key(site.api_keys, key_name)
         THEN Unchanged(codex_config_file, Err(api_key_missing(key_name, site_name)))
         ELSE codex_write_config(
                [config EXCEPT !.sites = insert(config.sites, site_name,
                     CodexSite_add_api_key(site, key_name, new_api_key))], fails)

codex_delete_api_key(site_name, key_name, fails) ==
    LET r == codex_read_config IN
    IF ~r.ok THEN Unchanged(codex_config_file, r) ELSE
    LET config == unwrap(r.val) IN
    IF ~contains_key(config.sites, site_name)
    THEN Unchanged(codex_config_file, Err(site_missing(site_name)))
    ELSE LET rm == CodexSite_remove_api_key(config.sites[site_name], key_name) IN
         IF ~is_some(rm.result)
         THEN Unchanged(codex_config_file, Err(api_key_missing(key_name, site_name)))
         ELSE codex_write_config(
                [config EXCEPT !.sites = insert(config.sites, site_name, rm.site)], fails)

(***************************************************************************)
(* Codex: projection into ~/.codex/auth.json and ~/.codex/config.toml.     *)
(* A text file is the sequence of its lines, a line the sequence of its    *)
(* literal pieces and formatted arguments.                                 *)
(***************************************************************************)
sync_to_auth_json(active_config, fails) ==
    IF write_fails("auth.json", fails)
    THEN Unchanged(codex_auth_json, Err(<<"writing auth.json failed">>))
    ELSE [file |-> FileOf(JObj([OPENAI_API_KEY |-> JStr(active_config.api_key)])),
          ret |-> OkUnit]

\* format!("{}", b) of a bool
bool_text(b) == IF b THEN "true" ELSE "false"

\* the line `key = "value"` when the field is present, no line otherwise
quoted_line(key, field) ==
    IF is_some(field) THEN << <<key, " = \"", unwrap(field), "\"">> >> ELSE <<>>

\* a generation whose section is always keyed by the site name
config_toml_lines_site_section(active_config) ==
    LET provider_name == IF is_some(active_config.model_provider)
                         THEN unwrap(active_config.model_provider)
                         ELSE active_config.site
    IN    << <<"model_provider", " = \"", provider_name, "\"">> >>
       \o quoted_line("model", active_config.model)
       \o quoted_line("model_reasoning_effort", active_config.model_reasoning_effort)
       \o quoted_line("network_access", active_config.network_access)
       \o (IF is_some(active_config.disable_response_storage)
           THEN << <<"disable_response_storage", " = ",
                     bool_text(unwrap(active_config.disable_response_storage))>> >>
           ELSE <<>>)
       \o << <<>> >>
       \o << <<"[model_providers.", active_config.site, "]">> >>
       \o << <<"name", " = \"", provider_name, "\"">> >>
       \o quoted_line("base_url", active_config.base_url)
       \o quoted_line("wire_api", active_config.wire_api)
       \o << <<"requires_openai_auth = true">> >>

config_toml_lines(active_config) ==
    LET provider_name == IF is_some(active_config.model_provider)
                         THEN unwrap(active_config.model_provider)
                         ELSE active_config.site
    IN    << <<"model_provider", " = \"", provider_name, "\"">> >>
       \o quoted_line("model", active_config.model)
       \o quoted_line("model_reasoning_effort", active_config.model_reasoning_effort)
       \o quoted_line("network_access", active_config.network_access)
       \o (IF is_some(active_config.disable_response_storage)
           THEN << <<"disable_response_storage", " = ",
                     bool_text(unwrap(active_config.disable_response_storage))>> >>
           ELSE <<>>)
       \o << <<>> >>
       \o << <<"[model_providers.", provider_name, "]">> >>
       \o << <<"name", " = \"", provider_name, "\"">> >>
       \o quoted_line("base_url", active_config.base_url)
       \o quoted_line("wire_api", active_config.wire_api)
       \o << <<"requires_openai_auth = true">> >>

sync_to_config_toml(active_config, fails) ==
    IF write_fails("config.toml", fails)
    THEN Unchanged(codex_config_toml, Err(<<"writing config.toml failed">>))
    ELSE [file |-> FileOf(config_toml_lines(active_config)), ret |-> OkUnit]

\* a sync_to_codex that writes config.toml before auth.json
sync_to_codex_toml_first(active_config, fails) ==
    IF ~dir_exists(".codex") /\ write_fails(".codex", fails)
    THEN [auth |-> codex_auth_json, toml |-> codex_config_toml, dirs |-> target_dirs,
          ret |-> Err(<<"creating the .codex directory failed">>)] ELSE
    LET dirs == create_dir_all(".codex")
        c == sync_to_config_toml(active_config, fails) IN
    IF ~c.ret.ok
    THEN [auth |-> codex_auth_json, toml |-> c.file, dirs |-> dirs, ret |-> c.ret]
    ELSE LET a == sync_to_auth_json(active_config, fails)
         IN [auth |-> a.file, toml |-> c.file, dirs |-> dirs, ret |-> a.ret]

\* sync_to_codex: auth.json first, then config.toml; the first failure returns
sync_to_codex(active_config, fails) ==
    IF ~dir_exists(".codex") /\ write_fails(".codex", fails)
    THEN [auth |-> codex_auth_json, toml |-> codex_config_toml, dirs |-> target_dirs,
          ret |-> Err(<<"creating the .codex directory failed">>)] ELSE
    LET dirs == create_dir_all(".codex")
        a == sync_to_auth_json(active_config, fails) IN
    IF ~a.ret.ok
    THEN [auth |-> a.file, toml |-> codex_config_toml, dirs |-> dirs, ret |-> a.ret]
    ELSE LET c == sync_to_config_toml(active_config, fails)
         IN [auth |-> a.file, toml |-> c.file, dirs |-> dirs, ret |-> c.ret]

(***************************************************************************)
(* Codex: resolution, switch, clear (manager.rs).                          *)
(***************************************************************************)
CodexActiveReference(site, api_key_name) == [site |-> site, api_key_name |-> api_key_name]

CodexActiveConfig_from_reference(reference, site) ==
    LET api_key == get(site.api_keys, reference.api_key_name) IN
    IF ~is_some(api_key)
    THEN Err(<<"API Key '", reference.api_key_name, "' not found in site '",
               reference.site, "'">>)
    ELSE Ok([site |-> reference.site,
             site_url |-> site.metadata.url,
             site_description |-> site.metadata.description,
             api_key_name |-> reference.api_key_name,
             api_key |-> unwrap(api_key),
             base_url |-> site.config.base_url,
             model |-> site.config.model,
             model_reasoning_effort |-> site.config.model_reasoning_effort,
             model_provider |-> site.config.model_provider,
             network_access |-> site.config.network_access,
             disable_response_storage |-> site.config.disable_response_storage,
             wire_api |-> site.config.wire_api])

\* Faulty variant: the key comes from the last projection (auth.json) when there is one.
get_active_codex_config_cached(file) ==
    LET g == read_global_config(file) IN
    IF ~g.ok THEN g ELSE
    LET reference == unwrap(g.val).active.codex IN
    IF ~is_some(reference) THEN Ok(None) ELSE
    LET s == codex_get_site(unwrap(reference).site) IN
    IF ~s.ok THEN s ELSE
    IF ~is_some(unwrap(s.val))
    THEN Err(<<"referenced Codex site '", unwrap(reference).site,
               "' does not exist in codex.json">>) ELSE
    LET a == CodexActiveConfig_from_reference(unwrap(reference), unwrap(unwrap(s.val))) IN
    IF ~a.ok THEN a ELSE
    IF codex_auth_json.exists /\ codex_auth_json.parses
    THEN Ok(Some([unwrap(a.val) EXCEPT
                     !.api_key = codex_auth_json.doc[1].o["OPENAI_API_KEY"].s]))
    ELSE Ok(Some(unwrap(a.val)))

get_active_codex_config(file) ==
    LET g == read_global_config(file) IN
    IF ~g.ok THEN g ELSE
    LET reference == unwrap(g.val).active.codex IN
    IF ~is_some(reference) THEN Ok(None) ELSE
    LET s == codex_get_site(unwrap(reference).site) IN
    IF ~s.ok THEN s ELSE
    IF ~is_some(unwrap(s.val))
    THEN Err(<<"referenced Codex site '", unwrap(reference).site,
               "' does not exist in codex.json">>) ELSE
    LET a == CodexActiveConfig_from_reference(unwrap(reference), unwrap(unwrap(s.val))) IN
    IF ~a.ok THEN a ELSE Ok(Some(unwrap(a.val)))

\* the result of switch_codex_config: config.json and both target files after it
CodexOutcome(cfg, auth, toml, ret) ==
    [global_config_file |-> cfg, auth |-> auth, toml |-> toml, dirs |-> target_dirs,
     ret |-> ret]

\* Faulty variant: a switch to the reference already stored returns without writing.
switch_codex_config_skipping(site_name, api_key_name, fails) ==
    LET Stop(cfg, ret) == CodexOutcome(cfg, codex_auth_json, codex_config_toml, ret)
        s == codex_get_site(site_name) IN
    IF ~s.ok THEN Stop(global_config_file, s) ELSE
    IF ~is_some(unwrap(s.val)) THEN Stop(global_config_file, Err(site_missing(site_name))) ELSE
    IF ~contains_key(unwrap(unwrap(s.val)).api_keys, api_key_name)
    THEN Stop(global_config_file, Err(api_key_missing(api_key_name, site_name))) ELSE
    LET g == read_global_config(global_config_file) IN
    IF ~g.ok THEN Stop(global_config_file, g) ELSE
    IF unwrap(g.val).active.codex = Some(CodexActiveReference(site_name, api_key_name))
    THEN Stop(global_config_file, OkUnit) ELSE
    LET global_config == GlobalConfig_update_timestamp(
            [unwrap(g.val) EXCEPT !.active.codex =
                 Some(CodexActiveReference(site_name, api_key_name))])
        w == write_global_config(global_config_file, global_config, fails) IN
    IF ~w.ret.ok THEN Stop(w.file, w.ret) ELSE
    LET a == get_active_codex_config(w.file) IN
    IF ~a.ok THEN Stop(w.file, a) ELSE
    IF ~is_some(unwrap(a.val))
    THEN Stop(w.file, Err(<<"cannot get the active Codex config">>)) ELSE
    LET y == sync_to_codex(unwrap(unwrap(a.val)), fails) IN
    [CodexOutcome(w.file, y.auth, y.toml, y.ret) EXCEPT !.dirs = y.dirs]

switch_codex_config(site_name, api_key_name, fails) ==
    LET Stop(cfg, ret) == CodexOutcome(cfg, codex_auth_json, codex_config_toml, ret)
        s == codex_get_site(site_name) IN
    IF ~s.ok THEN Stop(global_config_file, s) ELSE
    IF ~is_some(unwrap(s.val)) THEN Stop(global_config_file, Err(site_missing(site_name))) ELSE
    IF ~contains_key(unwrap(unwrap(s.val)).api_keys, api_key_name)
    THEN Stop(global_config_file, Err(api_key_missing(api_key_name, site_name))) ELSE
    LET g == read_global_config(global_config_file) IN
    IF ~g.ok THEN Stop(global_config_file, g) ELSE
    LET global_config == GlobalConfig_update_timestamp(
            [unwrap(g.val) EXCEPT !.active.codex =
                 Some(CodexActiveReference(site_name, api_key_name))])
        w == write_global_config(global_config_file, global_config, fails) IN
    IF ~w.ret.ok THEN Stop(w.file, w.ret) ELSE
    LET a == get_active_codex_config(w.file) IN
    IF ~a.ok THEN Stop(w.file, a) ELSE
    IF ~is_some(unwrap(a.val))
    THEN Stop(w.file, Err(<<"cannot get the active Codex config">>)) ELSE
    LET y == sync_to_codex(unwrap(unwrap(a.val)), fails) IN
    [CodexOutcome(w.file, y.auth, y.toml, y.ret) EXCEPT !.dirs = y.dirs]

\* Faulty variant: writes a fresh `active` block, dropping every family's reference.
clear_codex_active_all(fails) ==
    LET g == read_global_config(global_config_file) IN
    IF ~g.ok THEN Unchanged(global_config_file, g) ELSE
    write_global_config(global_config_file,
        GlobalConfig_update_timestamp([unwrap(g.val) EXCEPT !.active = ActiveConfigs_default]),
        fails)

clear_codex_active(fails) ==
    LET g == read_global_config(global_config_file) IN
    IF ~g.ok THEN Unchanged(global_config_file, g) ELSE
    write_global_config(global_config_file,
        GlobalConfig_update_timestamp([unwrap(g.val) EXCEPT !.active.codex = None]), fails)

(***************************************************************************)
(* Gemini: the credential store ~/.cc-cli/gemini.json (models.rs,          *)
(* gemini_manager.rs).                                                     *)
(***************************************************************************)
GeminiSiteConfig_default == [base_url |-> None, model |-> None]

GeminiSite_new(url, description) ==
    [metadata |-> [url |-> url, description |-> description,
                   created_at |-> default_timestamp, updated_at |-> default_timestamp],
     api_keys |-> EmptyMap,
     config |-> GeminiSiteConfig_default]

GeminiConfig_new == [version |-> "3.0.0", sites |-> EmptyMap]

GeminiSite_add_api_key(site, key_name, api_key) ==
    update_timestamp([site EXCEPT !.api_keys = insert(site.api_keys, key_name, api_key)])

GeminiSite_remove_api_key(site, key_name) ==
    [site |-> update_timestamp([site EXCEPT !.api_keys = remove(site.api_keys, key_name)]),
     result |-> get(site.api_keys, key_name)]

gemini_read_config ==
    IF ~gemini_config_file.exists THEN Ok(GeminiConfig_new)
    ELSE IF ~gemini_config_file.parses THEN Err(<<"parsing gemini.json failed">>)
    ELSE Ok(gemini_config_file.doc[1])

gemini_write_config(config, fails) ==
    IF write_fails("gemini.json", fails)
    THEN Unchanged(gemini_config_file, Err(<<"writing gemini.json failed">>))
    ELSE [file |-> FileOf(config), ret |-> OkUnit]

gemini_get_site(site_name) ==
    LET r == gemini_read_config
    IN IF ~r.ok THEN r ELSE Ok(get(unwrap(r.val).sites, site_name))

gemini_add_site(site_name, url, description, fails) ==
    LET r == gemini_read_config IN
    IF ~r.ok THEN Unchanged(gemini_config_file, r) ELSE
    LET config == unwrap(r.val) IN
    IF contains_key(config.sites, site_name)
    THEN Unchanged(gemini_config_file, Err(<<"site '", site_name, "' already exists">>))
    ELSE gemini_write_config(
            [config EXCEPT !.sites = insert(config.sites, site_name,
                                            GeminiSite_new(url, description))], fails)

gemini_update_site_metadata(site_name, url, description, fails) ==
    LET r == gemini_read_config IN
    IF ~r.ok THEN Unchanged(gemini_config_file, r) ELSE
    LET config == unwrap(r.val) IN
    IF ~contains_key(config.sites, site_name)
    THEN Unchanged(gemini_config_file, Err(site_missing(site_name)))
    ELSE LET site == config.sites[site_name]
             s1 == IF is_some(url) THEN [site EXCEPT !.metadata.url = unwrap(url)] ELSE site
             s2 == IF is_some(description)
                   THEN [s1 EXCEPT !.metadata.description = description] ELSE s1
         IN gemini_write_config(
                [config EXCEPT !.sites = insert(config.sites, site_name,
                                                update_timestamp(s2))], fails)

gemini_delete_site(site_name, fails) ==
    LET r == gemini_read_config IN
    IF ~r.ok THEN Unchanged(gemini_config_file, r) ELSE
    LET config == unwrap(r.val) IN
    IF ~contains_key(config.sites, site_name)
    THEN Unchanged(gemini_config_file, Err(site_missing(site_name)))
    ELSE gemini_write_config(
            [config EXCEPT !.sites = remove(config.sites, site_name)], fails)

gemini_update_site_config(site_name, base_url, model, fails) ==
    LET r == gemini_read_config IN
    IF ~r.ok THEN Unchanged(gemini_config_file, r) ELSE
    LET config == unwrap(r.val) IN
    IF ~contains_key(config.sites, site_name)
    THEN Unchanged(gemini_config_file, Err(site_missing(site_name)))
    ELSE LET site == config.sites[site_name]
             c1 == [base_url |-> patch(site.config.base_url, base_url),
                    model |-> patch(site.config.model, model)]
         IN gemini_write_config(
                [config EXCEPT !.sites = insert(config.sites, site_name,
                     update_timestamp([site EXCEPT !.config = c1]))], fails)

\* Faulty variant: an add of a key name the site holds overwrites the key.
gemini_add_api_key_upsert(site_name, key_name, api_key, fails) ==
    LET r == gemini_read_config IN
    IF ~r.ok THEN Unchanged(gemini_config_file, r) ELSE
    LET config == unwrap(r.val) IN
    IF ~contains_key(config.sites, site_name)
    THEN Unchanged(gemini_config_file, Err(site_missing(site_name)))
    ELSE gemini_write_config(
            [config EXCEPT !.sites = insert(config.sites, site_name,
                 GeminiSite_add_api_key(config.sites[site_name], key_name, api_key))],
            fails)

gemini_add_api_key(site_name, key_name, api_key, fails) ==
    LET r == gemini_read_config IN
    IF ~r.ok THEN Unchanged(gemini_config_file, r) ELSE
    LET config == unwrap(r.val) IN
    IF ~contains_key(config.sites, site_name)
    THEN Unchanged(gemini_config_file, Err(site_missing(site_name)))
    ELSE LET site == config.sites[site_name] IN
         IF contains_key(site.api_keys, key_name)
         THEN Unchanged(gemini_config_file, Err(api_key_exists(key_name, site_name)))
         ELSE gemini_write_config(
                [config EXCEPT !.sites = insert(config.sites, site_name,
                     GeminiSite_add_api_key(site, key_name, api_key))], fails)

gemini_update_api_key(site_name, key_name, new_api_key, fails) ==
    LET r == gemini_read_config IN
    IF ~r.ok THEN Unchanged(gemini_config_file, r) ELSE
    LET config == unwrap(r.val) IN
    IF ~contains_key(config.sites, site_name)
    THEN Unchanged(gemini_config_file, Err(site_missing(site_name)))
    ELSE LET site == config.sites[site_name] IN
         IF ~contains_key(site.api_keys, key_name)
         THEN Unchanged(gemini_config_file, Err(api_key_missing(key_name, site_name)))
         ELSE gemini_write_config(
                [config EXCEPT !.sites = insert(config.sites, site_name,
                     GeminiSite_add_api_key(site, key_name, new_api_key))], fails)

gemini_delete_api_key(site_name, key_name, fails) ==
    LET r == gemini_read_config IN
    IF ~r.ok THEN Unchanged(gemini_config_file, r) ELSE
    LET config == unwrap(r.val) IN
    IF ~contains_key(config.sites, site_name)
    THEN Unchanged(gemini_config_file, Err(site_missing(site_name)))
    ELSE LET rm == GeminiSite_remove_api_key(config.sites[site_name], key_name) IN
         IF ~is_some(rm.result)
         THEN Unchanged(gemini_config_file, Err(api_key_missing(key_name, site_name)))
         ELSE gemini_write_config(
                [config EXCEPT !.sites = insert(config.sites, site_name, rm.site)], fails)

(***************************************************************************)
(* Gemini: projection into ~/.gemini/.env, resolution, switch, clear.      *)
(***************************************************************************)
\* a line for every field: an absent one gives `KEY=`
env_line_blank(key, field) ==
    IF is_some(field) THEN << <<key, "=", unwrap(field)>> >> ELSE << <<key, "=", "">> >>

env_line(key, field) == IF is_some(field) THEN << <<key, "=", unwrap(field)>> >> ELSE <<>>

env_lines(active_config) ==
       env_line("GOOGLE_GEMINI_BASE_URL", active_config.base_url)
    \o << <<"GEMINI_API_KEY", "=", active_config.api_key>> >>
    \o env_line("GEMINI_MODEL", active_config.model)

\* Faulty variant: appends to the lines .env already holds.
sync_to_env_appending(active_config, fails) ==
    IF write_fails(".env", fails)
    THEN Unchanged(gemini_env_file, Err(<<"writing .env failed">>))
    ELSE [file |-> FileOf((IF gemini_env_file.exists /\ gemini_env_file.parses
                           THEN gemini_env_file.doc[1] ELSE <<>>)
                          \o env_lines(active_config)),
          ret |-> OkUnit]

sync_to_env(active_config, fails) ==
    IF write_fails(".env", fails)
    THEN Unchanged(gemini_env_file, Err(<<"writing .env failed">>))
    ELSE [file |-> FileOf(env_lines(active_config)), ret |-> OkUnit]

\* sync_to_gemini writes .env only; settings.json is left to the user
sync_to_gemini(active_config, fails) ==
    IF ~dir_exists(".gemini") /\ write_fails(".gemini", fails)
    THEN [file |-> gemini_env_file, dirs |-> target_dirs,
          ret |-> Err(<<"creating the .gemini directory failed">>)] ELSE
    LET e == sync_to_env(active_config, fails) IN
    [file |-> e.file, dirs |-> create_dir_all(".gemini"), ret |-> e.ret]

GeminiActiveReference(site, api_key_name) == [site |-> site, api_key_name |-> api_key_name]

GeminiActiveConfig_from_reference(reference, site) ==
    LET api_key == get(site.api_keys, reference.api_key_name) IN
    IF ~is_some(api_key)
    THEN Err(<<"API Key '", reference.api_key_name, "' not found in site '",
               reference.site, "'">>)
    ELSE Ok([site |-> reference.site,
             site_url |-> site.metadata.url,
             site_description |-> site.metadata.description,
             api_key_name |-> reference.api_key_name,
             api_key |-> unwrap(api_key),
             base_url |-> site.config.base_url,
             model |-> site.config.model])

get_active_gemini_config(file) ==
    LET g == read_global_config(file) IN
    IF ~g.ok THEN g ELSE
    LET reference == unwrap(g.val).active.gemini IN
    IF ~is_some(reference) THEN Ok(None) ELSE
    LET c == gemini_read_config IN
    IF ~c.ok THEN c ELSE
    LET site == get(unwrap(c.val).sites, unwrap(reference).site) IN
    IF ~is_some(site)
    THEN Err(<<"site '", unwrap(reference).site, "' does not exist in gemini.json">>) ELSE
    LET a == GeminiActiveConfig_from_reference(unwrap(reference), unwrap(site)) IN
    IF ~a.ok THEN a ELSE Ok(Some(unwrap(a.val)))

\* Faulty variant: persists the reference before validating the site and the key.
switch_gemini_config_eager(site_name, api_key_name, fails) ==
    LET reference == GeminiActiveReference(site_name, api_key_name)
        g == read_global_config(global_config_file) IN
    IF ~g.ok THEN Outcome(global_config_file, gemini_env_file, g) ELSE
    LET global_config == GlobalConfig_update_timestamp(
            [unwrap(g.val) EXCEPT !.active.gemini = Some(reference)])
        w == write_global_config(global_config_file, global_config, fails) IN
    IF ~w.ret.ok THEN Outcome(w.file, gemini_env_file, w.ret) ELSE
    LET c == gemini_read_config IN
    IF ~c.ok THEN Outcome(w.file, gemini_env_file, c) ELSE
    LET site == get(unwrap(c.val).sites, site_name) IN
    IF ~is_some(site)
    THEN Outcome(w.file, gemini_env_file, Err(site_missing(site_name))) ELSE
    IF ~contains_key(unwrap(site).api_keys, api_key_name)
    THEN Outcome(w.file, gemini_env_file,
                 Err(api_key_missing(api_key_name, site_name))) ELSE
    LET a == GeminiActiveConfig_from_reference(reference, unwrap(site)) IN
    IF ~a.ok THEN Outcome(w.file, gemini_env_file, a) ELSE
    LET y == sync_to_gemini(unwrap(a.val), fails) IN
    [Outcome(w.file, y.file, y.ret) EXCEPT !.dirs = y.dirs]

\* switch_gemini_config resolves against the site it read for the validation
switch_gemini_config(site_name, api_key_name, fails) ==
    LET c == gemini_read_config IN
    IF ~c.ok THEN Outcome(global_config_file, gemini_env_file, c) ELSE
    LET site == get(unwrap(c.val).sites, site_name) IN
    IF ~is_some(site)
    THEN Outcome(global_config_file, gemini_env_file, Err(site_missing(site_name))) ELSE
    IF ~contains_key(unwrap(site).api_keys, api_key_name)
    THEN Outcome(global_config_file, gemini_env_file,
                 Err(api_key_missing(api_key_name, site_name))) ELSE
    LET reference == GeminiActiveReference(site_name, api_key_name)
        g == read_global_config(global_config_file) IN
    IF ~g.ok THEN Outcome(global_config_file, gemini_env_file, g) ELSE
    LET global_config == GlobalConfig_update_timestamp(
            [unwrap(g.val) EXCEPT !.active.gemini = Some(reference)])
        w == write_global_config(global_config_file, global_config, fails) IN
    IF ~w.ret.ok THEN Outcome(w.file, gemini_env_file, w.ret) ELSE
    LET a == GeminiActiveConfig_from_reference(reference, unwrap(site)) IN
    IF ~a.ok THEN Outcome(w.file, gemini_env_file, a) ELSE
    LET y == sync_to_gemini(unwrap(a.val), fails) IN
    [Outcome(w.file, y.file, y.ret) EXCEPT !.dirs = y.dirs]

\* Faulty variant: writes config.json back with the reference still in it.
clear_gemini_active_keeping(fails) ==
    LET g == read_global_config(global_config_file) IN
    IF ~g.ok THEN Unchanged(global_config_file, g) ELSE
    write_global_config(global_config_file,
        GlobalConfig_update_timestamp(unwrap(g.val)), fails)

clear_gemini_active(fails) ==
    LET g == read_global_config(global_config_file) IN
    IF ~g.ok THEN Unchanged(global_config_file, g) ELSE
    write_global_config(global_config_file,
        GlobalConfig_update_timestamp([unwrap(g.val) EXCEPT !.active.gemini = None]), fails)

(***************************************************************************)
(* OpenCode: the provider store ~/.cc-cli/opencode.json (models.rs,        *)
(* opencode_manager.rs).  metadata, site_detection and model_detection are *)
(* #[serde(skip)]: serialization drops them, deserialization fills in      *)
(* Default::default().                                                     *)
(***************************************************************************)
\* #[derive(Default)]: the timestamps are String::default(), the empty string,
\* which is no time of the clock
EmptyTimestamp == -1
ProviderMetadata_default ==
    [description |-> None, created_at |-> EmptyTimestamp, updated_at |-> EmptyTimestamp]

OpenCodeProvider_new(name, base_url, api_key, npm, description) ==
    [npm |-> npm, name |-> name,
     options |-> [base_url |-> base_url, api_key |-> api_key],
     models |-> EmptyMap,
     metadata |-> [description |-> description,
                   created_at |-> default_timestamp, updated_at |-> default_timestamp],
     site_detection |-> None]

OpenCodeModelInfo(name, limit) == [name |-> name, limit |-> limit, model_detection |-> None]

OpenCodeConfig_new == [version |-> "3.0.0", providers |-> EmptyMap]

\* Serialize for OpenCodeProvider: the skipped fields are not written
serialize_provider(provider) ==
    [npm |-> provider.npm, name |-> provider.name, options |-> provider.options,
     models |-> [m \in DOMAIN provider.models |->
                   [name |-> provider.models[m].name, limit |-> provider.models[m].limit]]]

\* Deserialize for OpenCodeProvider: the skipped fields take their defaults
deserialize_provider(data) ==
    [npm |-> data.npm, name |-> data.name, options |-> data.options,
     models |-> [m \in DOMAIN data.models |->
                   OpenCodeModelInfo(data.models[m].name, data.models[m].limit)],
     metadata |-> ProviderMetadata_default,
     site_detection |-> None]

Provider_update_timestamp(provider) ==
    [provider EXCEPT !.metadata.updated_at = default_timestamp]

opencode_read_config ==
    IF ~opencode_config_file.exists THEN Ok(OpenCodeConfig_new)
    ELSE IF ~opencode_config_file.parses THEN Err(<<"parsing opencode.json failed">>)
    ELSE LET d == opencode_config_file.doc[1]
         IN Ok([version |-> d.version,
                providers |-> [n \in DOMAIN d.providers |->
                                 deserialize_provider(d.providers[n])]])

opencode_write_config(config, fails) ==
    IF write_fails("opencode.json", fails)
    THEN Unchanged(opencode_config_file, Err(<<"writing opencode.json failed">>))
    ELSE [file |-> FileOf([version |-> config.version,
                           providers |-> [n \in DOMAIN config.providers |->
                                            serialize_provider(config.providers[n])]]),
          ret |-> OkUnit]

provider_missing(provider_name) == <<"Provider '", provider_name, "' does not exist">>

opencode_get_provider(provider_name) ==
    LET r == opencode_read_config
    IN IF ~r.ok THEN r ELSE Ok(get(unwrap(r.val).providers, provider_name))

opencode_add_provider(provider_name, base_url, api_key, npm, description, fails) ==
    LET r == opencode_read_config IN
    IF ~r.ok THEN Unchanged(opencode_config_file, r) ELSE
    LET config == unwrap(r.val) IN
    IF contains_key(config.providers, provider_name)
    THEN Unchanged(opencode_config_file,
                   Err(<<"Provider '", provider_name, "' already exists">>))
    ELSE opencode_write_config(
            [config EXCEPT !.providers = insert(config.providers, provider_name,
                 OpenCodeProvider_new(provider_name, base_url, api_key, npm, description))],
            fails)

\* set_base_url, set_api_key and the two direct assignments each bump updated_at
opencode_update_provider_metadata(provider_name, base_url, api_key, npm, description, fails) ==
    LET r == opencode_read_config IN
    IF ~r.ok THEN Unchanged(opencode_config_file, r) ELSE
    LET config == unwrap(r.val) IN
    IF ~contains_key(config.providers, provider_name)
    THEN Unchanged(opencode_config_file, Err(provider_missing(provider_name)))
    ELSE LET provider == config.providers[provider_name]
             p1 == IF is_some(base_url)
                   THEN Provider_update_timestamp(
                            [provider EXCEPT !.options.base_url = unwrap(base_url)])
                   ELSE provider
             p2 == IF is_some(api_key)
                   THEN Provider_update_timestamp(
                            [p1 EXCEPT !.options.api_key = unwrap(api_key)])
                   ELSE p1
             p3 == IF is_some(npm)
                   THEN Provider_update_timestamp([p2 EXCEPT !.npm = npm]) ELSE p2
             p4 == IF is_some(description)
                   THEN Provider_update_timestamp(
                            [p3 EXCEPT !.metadata.description = description])
                   ELSE p3
         IN opencode_write_config(
                [config EXCEPT !.providers = insert(config.providers, provider_name, p4)],
                fails)

opencode_delete_provider(provider_name, fails) ==
    LET r == opencode_read_config IN
    IF ~r.ok THEN Unchanged(opencode_config_file, r) ELSE
    LET config == unwrap(r.val) IN
    IF ~contains_key(config.providers, provider_name)
    THEN Unchanged(opencode_config_file, Err(provider_missing(provider_name)))
    ELSE opencode_write_config(
            [config EXCEPT !.providers = remove(config.providers, provider_name)], fails)

opencode_update_api_key(provider_name, new_api_key, fails) ==
    LET r == opencode_read_config IN
    IF ~r.ok THEN Unchanged(opencode_config_file, r) ELSE
    LET config == unwrap(r.val) IN
    IF ~contains_key(config.providers, provider_name)
    THEN Unchanged(opencode_config_file, Err(provider_missing(provider_name)))
    ELSE LET provider == config.providers[provider_name] IN
         opencode_write_config(
            [config EXCEPT !.providers = insert(config.providers, provider_name,
                 Provider_update_timestamp(
                     [provider EXCEPT !.options.api_key = new_api_key]))], fails)

opencode_add_model(provider_name, model_id, model_info, fails) ==
    LET r == opencode_read_config IN
    IF ~r.ok THEN Unchanged(opencode_config_file, r) ELSE
    LET config == unwrap(r.val) IN
    IF ~contains_key(config.providers, provider_name)
    THEN Unchanged(opencode_config_file, Err(provider_missing(provider_name)))
    ELSE LET provider == config.providers[provider_name] IN
         IF contains_key(provider.models, model_id)
         THEN Unchanged(opencode_config_file,
                  Err(<<"model '", model_id, "' already exists in Provider '",
                        provider_name, "'">>))
         ELSE opencode_write_config(
                [config EXCEPT !.providers = insert(config.providers, provider_name,
                     Provider_update_timestamp(
                         [provider EXCEPT !.models =
                              insert(provider.models, model_id, model_info)]))], fails)

opencode_delete_model(provider_name, model_id, fails) ==
    LET r == opencode_read_config IN
    IF ~r.ok THEN Unchanged(opencode_config_file, r) ELSE
    LET config == unwrap(r.val) IN
    IF ~contains_key(config.providers, provider_name)
    THEN Unchanged(opencode_config_file, Err(provider_missing(provider_name)))
    ELSE LET provider == config.providers[provider_name] IN
         IF ~contains_key(provider.models, model_id)
         THEN Unchanged(opencode_config_file,
                  Err(<<"model '", model_id, "' does not exist in Provider '",
                        provider_name, "'">>))
         ELSE opencode_write_config(
                [config EXCEPT !.providers = insert(config.providers, provider_name,
                     Provider_update_timestamp(
                         [provider EXCEPT !.models = remove(provider.models, model_id)]))],
                fails)

(***************************************************************************)
(* OpenCode: projection into ~/.opencode/opencode.json.  The active        *)
(* configuration carries the two roles, main and small, each a             *)
(* (provider, model) pair.                                                 *)
(***************************************************************************)
OpenCodeModelReference(provider, model) == [provider |-> provider, model |-> model]

\* Faulty variant: embeds every stored provider.
all_providers_map(active_config, opencode_config) ==
    [n \in DOMAIN opencode_config.providers |->
        serialize_provider(opencode_config.providers[n])]

\* the provider object of the output: only the providers the two roles use
providers_map(active_config, opencode_config) ==
    LET m0 == EmptyMap
        m1 == IF contains_key(opencode_config.providers, active_config.main.provider)
              THEN insert(m0, active_config.main.provider,
                     serialize_provider(
                         opencode_config.providers[active_config.main.provider]))
              ELSE m0
    IN IF active_config.small.provider # active_config.main.provider
          /\ contains_key(opencode_config.providers, active_config.small.provider)
       THEN insert(m1, active_config.small.provider,
              serialize_provider(opencode_config.providers[active_config.small.provider]))
       ELSE m1

sync_data(active_config, opencode_config) ==
    [schema |-> "https://opencode.ai/config.json",
     theme |-> "tokyonight",
     autoupdate |-> FALSE,
     model |-> <<active_config.main.provider, "/", active_config.main.model>>,
     small_model |-> <<active_config.small.provider, "/", active_config.small.model>>,
     provider |-> providers_map(active_config, opencode_config),
     tools |-> [get_current_session_id |-> TRUE, webfetch |-> TRUE],
     agent |-> EmptyMap,
     mcp |-> EmptyMap]

sync_to_opencode(active_config, fails) ==
    IF ~dir_exists(".opencode") /\ write_fails(".opencode", fails)
    THEN [file |-> opencode_json, dirs |-> target_dirs,
          ret |-> Err(<<"creating the .opencode directory failed">>)] ELSE
    LET dirs == create_dir_all(".opencode")
        r == opencode_read_config IN
    IF ~r.ok THEN [file |-> opencode_json, dirs |-> dirs, ret |-> r]
    ELSE IF write_fails(".opencode/opencode.json", fails)
         THEN [file |-> opencode_json, dirs |-> dirs,
               ret |-> Err(<<"writing ~/.opencode/opencode.json failed">>)]
         ELSE [file |-> FileOf(sync_data(active_config, unwrap(r.val))), dirs |-> dirs,
               ret |-> OkUnit]

(***************************************************************************)
(* OpenCode: resolution, switch, clear (manager.rs).                       *)
(***************************************************************************)
OpenCodeActiveReference(main, small) == [main |-> main, small |-> small]

\* Resolution of the two roles against the provider store.
OpenCodeActiveConfig_from_reference(reference, config) ==
    IF ~contains_key(config.providers, reference.main.provider)
    THEN Err(<<"Provider '", reference.main.provider, "' not found">>)
    ELSE IF ~contains_key(config.providers[reference.main.provider].models,
                          reference.main.model)
    THEN Err(<<"Model '", reference.main.model, "' not found in provider '",
               reference.main.provider, "'">>)
    ELSE IF ~contains_key(config.providers, reference.small.provider)
    THEN Err(<<"Provider '", reference.small.provider, "' not found">>)
    ELSE IF ~contains_key(config.providers[reference.small.provider].models,
                          reference.small.model)
    THEN Err(<<"Model '", reference.small.model, "' not found in provider '",
               reference.small.provider, "'">>)
    ELSE Ok([main |-> reference.main, small |-> reference.small])

\* Faulty variant: a reference that does not resolve reads as no active configuration.
get_active_opencode_config_lenient(file) ==
    LET g == read_global_config(file) IN
    IF ~g.ok THEN g ELSE
    LET reference == unwrap(g.val).active.opencode IN
    IF ~is_some(reference) THEN Ok(None) ELSE
    LET c == opencode_read_config IN
    IF ~c.ok THEN c ELSE
    LET a == OpenCodeActiveConfig_from_reference(unwrap(reference), unwrap(c.val)) IN
    IF ~a.ok THEN Ok(None) ELSE Ok(Some(unwrap(a.val)))

get_active_opencode_config(file) ==
    LET g == read_global_config(file) IN
    IF ~g.ok THEN g ELSE
    LET reference == unwrap(g.val).active.opencode IN
    IF ~is_some(reference) THEN Ok(None) ELSE
    LET c == opencode_read_config IN
    IF ~c.ok THEN c ELSE
    LET a == OpenCodeActiveConfig_from_reference(unwrap(reference), unwrap(c.val)) IN
    IF ~a.ok THEN a ELSE Ok(Some(unwrap(a.val)))

\* Faulty variant: looks for the small provider before the main model.
switch_opencode_config_small_first(main_provider, main_model, small_provider, small_model, fails) ==
    LET Stop(ret) == Outcome(global_config_file, opencode_json, ret)
        c == opencode_read_config IN
    IF ~c.ok THEN Stop(c) ELSE
    LET opencode_config == unwrap(c.val) IN
    IF ~contains_key(opencode_config.providers, main_provider)
    THEN Stop(Err(<<"main model Provider '", main_provider, "' does not exist">>)) ELSE
    IF ~contains_key(opencode_config.providers, small_provider)
    THEN Stop(Err(<<"small model Provider '", small_provider, "' does not exist">>)) ELSE
    IF ~contains_key(opencode_config.providers[main_provider].models, main_model)
    THEN Stop(Err(<<"main model '", main_model, "' does not exist in Provider '",
                    main_provider, "'">>)) ELSE
    IF ~contains_key(opencode_config.providers[small_provider].models, small_model)
    THEN Stop(Err(<<"small model '", small_model, "' does not exist in Provider '",
                    small_provider, "'">>)) ELSE
    LET reference == OpenCodeActiveReference(
                         OpenCodeModelReference(main_provider, main_model),
                         OpenCodeModelReference(small_provider, small_model))
        g == read_global_config(global_config_file) IN
    IF ~g.ok THEN Stop(g) ELSE
    LET global_config == GlobalConfig_update_timestamp(
            [unwrap(g.val) EXCEPT !.active.opencode = Some(reference)])
        w == write_global_config(global_config_file, global_config, fails) IN
    IF ~w.ret.ok THEN Outcome(w.file, opencode_json, w.ret) ELSE
    LET a == OpenCodeActiveConfig_from_reference(reference, opencode_config) IN
    IF ~a.ok THEN Outcome(w.file, opencode_json, a) ELSE
    LET y == sync_to_opencode(unwrap(a.val), fails) IN
    [Outcome(w.file, y.file, y.ret) EXCEPT !.dirs = y.dirs]

switch_opencode_config(main_provider, main_model, small_provider, small_model, fails) ==
    LET Stop(ret) == Outcome(global_config_file, opencode_json, ret)
        c == opencode_read_config IN
    IF ~c.ok THEN Stop(c) ELSE
    LET opencode_config == unwrap(c.val) IN
    IF ~contains_key(opencode_config.providers, main_provider)
    THEN Stop(Err(<<"main model Provider '", main_provider, "' does not exist">>)) ELSE
    IF ~contains_key(opencode_config.providers[main_provider].models, main_model)
    THEN Stop(Err(<<"main model '", main_model, "' does not exist in Provider '",
                    main_provider, "'">>)) ELSE
    IF ~contains_key(opencode_config.providers, small_provider)
    THEN Stop(Err(<<"small model Provider '", small_provider, "' does not exist">>)) ELSE
    IF ~contains_key(opencode_config.providers[small_provider].models, small_model)
    THEN Stop(Err(<<"small model '", small_model, "' does not exist in Provider '",
                    small_provider, "'">>)) ELSE
    LET reference == OpenCodeActiveReference(
                         OpenCodeModelReference(main_provider, main_model),
                         OpenCodeModelReference(small_provider, small_model))
        g == read_global_config(global_config_file) IN
    IF ~g.ok THEN Stop(g) ELSE
    LET global_config == GlobalConfig_update_timestamp(
            [unwrap(g.val) EXCEPT !.active.opencode = Some(reference)])
        w == write_global_config(global_config_file, global_config, fails) IN
    IF ~w.ret.ok THEN Outcome(w.file, opencode_json, w.ret) ELSE
    LET a == OpenCodeActiveConfig_from_reference(reference, opencode_config) IN
    IF ~a.ok THEN Outcome(w.file, opencode_json, a) ELSE
    LET y == sync_to_opencode(unwrap(a.val), fails) IN
    [Outcome(w.file, y.file, y.ret) EXCEPT !.dirs = y.dirs]

clear_opencode_active(fails) ==
    LET g == read_global_config(global_config_file) IN
    IF ~g.ok THEN Unchanged(global_config_file, g) ELSE
    write_global_config(global_config_file,
        GlobalConfig_update_timestamp([unwrap(g.val) EXCEPT !.active.opencode = None]), fails)

(***************************************************************************)
(* The calls of a session as actions.  Each records itself in `last`.      *)
(***************************************************************************)
Call(op, args, ret) == last' = [op |-> op, args |-> args, ret |-> ret]

\* Faulty variant: removing a site also clears the Claude reference in config.json.
ClaudeStoreCall_cascading(op, args, r) ==
    /\ family = "claude"
    /\ claude_config_file' = r.file
    /\ Call(op, args, r.ret)
    /\ global_config_file' = IF op = "claude.remove_site" /\ r.ret.ok
                             THEN clear_claude_active({}).file ELSE global_config_file
    /\ UNCHANGED <<family, now, in_flight, target_dirs, settings_file, codex_files, gemini_files, opencode_files>>

\* a call on the Claude store: only claude.json can change
ClaudeStoreCall(op, args, r) ==
    /\ family = "claude"
    /\ claude_config_file' = r.file
    /\ Call(op, args, r.ret)
    /\ UNCHANGED <<family, now, in_flight, target_dirs, global_config_file, settings_file,
                   codex_files, gemini_files, opencode_files>>

\* Faulty variant: a reference that does not resolve is removed from config.json.
GetActiveClaude_healing ==
    /\ family = "claude"
    /\ LET r == get_active_claude_config(global_config_file) IN
         /\ Call("get_active_claude_config", <<>>, r)
         /\ global_config_file' = IF r.ok THEN global_config_file
                                  ELSE clear_claude_active({}).file
    /\ UNCHANGED <<family, now, in_flight, target_dirs, claude_files, codex_files,
                   gemini_files, opencode_files>>

GetActiveClaude ==
    /\ family = "claude"
    /\ Call("get_active_claude_config", <<>>, get_active_claude_config(global_config_file))
    /\ UNCHANGED <<family, now, in_flight, target_dirs, global_config_file, claude_files,
                   codex_files, gemini_files, opencode_files>>

SwitchClaude(s, k, fails) ==
    /\ family = "claude"
    /\ LET r == switch_claude_config(s, k, fails) IN
         /\ global_config_file' = r.global_config_file
         /\ settings_file' = r.target
         /\ Call("switch_claude_config", <<s, k>>, r.ret)
    /\ UNCHANGED <<family, now, in_flight, target_dirs, claude_config_file, codex_files, gemini_files, opencode_files>>

ClearClaude(fails) ==
    /\ family = "claude"
    /\ LET r == clear_claude_active(fails) IN
         /\ global_config_file' = r.file
         /\ Call("clear_claude_active", <<>>, r.ret)
    /\ UNCHANGED <<family, now, in_flight, target_dirs, claude_files, codex_files, gemini_files, opencode_files>>

(***************************************************************************)
(* Codex, Gemini and OpenCode calls as actions.                            *)
(***************************************************************************)
CodexStoreCall(op, args, r) ==
    /\ family = "codex"
    /\ codex_config_file' = r.file
    /\ Call(op, args, r.ret)
    /\ UNCHANGED <<family, now, in_flight, target_dirs, global_config_file, codex_auth_json, codex_config_toml,
                   claude_files, gemini_files, opencode_files>>

GetActiveCodex ==
    /\ family = "codex"
    /\ Call("get_active_codex_config", <<>>, get_active_codex_config(global_config_file))
    /\ UNCHANGED <<family, now, in_flight, target_dirs, global_config_file, claude_files,
                   codex_files, gemini_files, opencode_files>>

SwitchCodex(s, k, fails) ==
    /\ family = "codex"
    /\ LET r == switch_codex_config(s, k, fails) IN
         /\ global_config_file' = r.global_config_file
         /\ codex_auth_json' = r.auth
         /\ codex_config_toml' = r.toml
         /\ target_dirs' = r.dirs
         /\ Call("switch_codex_config", <<s, k>>, r.ret)
    /\ UNCHANGED <<family, now, in_flight, codex_config_file, claude_files, gemini_files, opencode_files>>

ClearCodex(fails) ==
    /\ family = "codex"
    /\ LET r == clear_codex_active(fails) IN
         /\ global_config_file' = r.file
         /\ Call("clear_codex_active", <<>>, r.ret)
    /\ UNCHANGED <<family, now, in_flight, target_dirs, claude_files, codex_files, gemini_files, opencode_files>>

GeminiStoreCall(op, args, r) ==
    /\ family = "gemini"
    /\ gemini_config_file' = r.file
    /\ Call(op, args, r.ret)
    /\ UNCHANGED <<family, now, in_flight, target_dirs, global_config_file, gemini_env_file, gemini_settings_file,
                   claude_files, codex_files, opencode_files>>

GetActiveGemini ==
    /\ family = "gemini"
    /\ Call("get_active_gemini_config", <<>>, get_active_gemini_config(global_config_file))
    /\ UNCHANGED <<family, now, in_flight, target_dirs, global_config_file, claude_files,
                   codex_files, gemini_files, opencode_files>>

SwitchGemini(s, k, fails) ==
    /\ family = "gemini"
    /\ LET r == switch_gemini_config(s, k, fails) IN
         /\ global_config_file' = r.global_config_file
         /\ gemini_env_file' = r.target
         /\ target_dirs' = r.dirs
         /\ Call("switch_gemini_config", <<s, k>>, r.ret)
    /\ UNCHANGED <<family, now, in_flight, gemini_config_file, gemini_settings_file,
                   claude_files, codex_files, opencode_files>>

ClearGemini(fails) ==
    /\ family = "gemini"
    /\ LET r == clear_gemini_active(fails) IN
         /\ global_config_file' = r.file
         /\ Call("clear_gemini_active", <<>>, r.ret)
    /\ UNCHANGED <<family, now, in_flight, target_dirs, claude_files, codex_files, gemini_files, opencode_files>>

OpenCodeStoreCall(op, args, r) ==
    /\ family = "opencode"
    /\ opencode_config_file' = r.file
    /\ Call(op, args, r.ret)
    /\ UNCHANGED <<family, now, in_flight, target_dirs, global_config_file, opencode_json,
                   claude_files, codex_files, gemini_files>>

GetActiveOpenCode ==
    /\ family = "opencode"
    /\ Call("get_active_opencode_config", <<>>, get_active_opencode_config(global_config_file))
    /\ UNCHANGED <<family, now, in_flight, target_dirs, global_config_file, claude_files,
                   codex_files, gemini_files, opencode_files>>

SwitchOpenCode(mp, mm, sp, sm, fails) ==
    /\ family = "opencode"
    /\ LET r == switch_opencode_config(mp, mm, sp, sm, fails) IN
         /\ global_config_file' = r.global_config_file
         /\ opencode_json' = r.target
         /\ target_dirs' = r.dirs
         /\ Call("switch_opencode_config", <<mp, mm, sp, sm>>, r.ret)
    /\ UNCHANGED <<family, now, in_flight, opencode_config_file, claude_files, codex_files, gemini_files>>

ClearOpenCode(fails) ==
    /\ family = "opencode"
    /\ LET r == clear_opencode_active(fails) IN
         /\ global_config_file' = r.file
         /\ Call("clear_opencode_active", <<>>, r.ret)
    /\ UNCHANGED <<family, now, in_flight, target_dirs, claude_files, codex_files, gemini_files, opencode_files>>

(***************************************************************************)
(* The session specification: one command module (cc claude, cc codex,     *)
(* cc gemini, cc opencode) drives its family's store and the manager.      *)
(* The inputs are drawn from the sets below.                               *)
(***************************************************************************)
Families == {"claude", "codex", "gemini", "opencode"}

UrlOf == [acme |-> "https://api.acme.test", beta |-> "https://api.beta.test"]
BaseUrls == {"https://proxy.test"}
Providers == {"openai", "local"}
ModelIds == {"gpt"}
ApiKeyOf == [openai |-> "key-openai", local |-> "key-local", azure |-> "key-azure"]

NoFault == {}
ClaudeFaults == {NoFault, {"config.json"}, {"settings.json"}}
CodexFaults == {NoFault, {"config.json"}, {"auth.json"}, {"config.toml"}}
GeminiFaults == {NoFault, {"config.json"}, {".env"}}
OpenCodeFaults == {NoFault, {"config.json"}, {".opencode/opencode.json"}}

CodexPatch(b) == [CodexSiteConfig_default EXCEPT !.base_url = b]

(***************************************************************************)
(* The target files have other writers: the user and the tools that own    *)
(* them.  The documents they leave, and their edits as actions (the        *)
(* program made no call, so `last` stays).                                 *)
(***************************************************************************)
\* ~/.claude/settings.json as other writers leave it
ExampleSettings ==
    FileOf(JObj([unrelated_key |-> JNum("42"),
                 env |-> JObj([SOME_OTHER_VAR |-> JStr("x")])]))
OwnedKeysByHand ==
    [k \in OwnedEnvKeys |-> JStr("by hand")]
LegacySettings ==
    FileOf(JObj(insert(insert(OwnedKeysByHand, "theme", JStr("dark")), "env",
                       JObj(insert(OwnedKeysByHand, "SOME_OTHER_VAR", JStr("x"))))))
TextEnvSettings ==
    FileOf(JObj([unrelated_key |-> JNum("42"), env |-> JStr("PATH=/bin")]))
SettingsDocs ==
    {NoFile, Garbage, ExampleSettings, LegacySettings, TextEnvSettings,
     FileOf(JArr("[1, 2]")), FileOf(JNull)}

\* the owned target files as other writers leave them
AuthByHand ==
    FileOf(JObj([OPENAI_API_KEY |-> JStr("sk-by-hand"), tokens |-> JStr("oauth")]))
AuthDocs == {NoFile, Garbage, AuthByHand}
TextByHand == FileOf(<< <<"# edited by hand">> >>)
TextDocs == {NoFile, Garbage, TextByHand}
OpenCodeJsonByHand ==
    FileOf([theme |-> "light", provider |-> [legacy |-> [name |-> "legacy"]]])
OpenCodeJsonDocs == {NoFile, Garbage, OpenCodeJsonByHand}

\* another writer replaces a target file; the program made no call
EditSettings(d) ==
    /\ family = "claude"
    /\ settings_file' = d
    /\ target_dirs' = IF d.exists THEN create_dir_all(".claude") ELSE target_dirs
    /\ UNCHANGED <<family, now, in_flight, global_config_file, claude_config_file, last,
                   codex_files, gemini_files, opencode_files>>
EditAuthJson(d) ==
    /\ family = "codex"
    /\ codex_auth_json' = d
    /\ target_dirs' = IF d.exists THEN create_dir_all(".codex") ELSE target_dirs
    /\ UNCHANGED <<family, now, in_flight, global_config_file, codex_config_file, codex_config_toml,
                   last, claude_files, gemini_files, opencode_files>>
EditConfigToml(d) ==
    /\ family = "codex"
    /\ codex_config_toml' = d
    /\ target_dirs' = IF d.exists THEN create_dir_all(".codex") ELSE target_dirs
    /\ UNCHANGED <<family, now, in_flight, global_config_file, codex_config_file, codex_auth_json,
                   last, claude_files, gemini_files, opencode_files>>
EditEnv(d) ==
    /\ family = "gemini"
    /\ gemini_env_file' = d
    /\ target_dirs' = IF d.exists THEN create_dir_all(".gemini") ELSE target_dirs
    /\ UNCHANGED <<family, now, in_flight, global_config_file, gemini_config_file,
                   gemini_settings_file, last, claude_files, codex_files, opencode_files>>
EditOpenCodeJson(d) ==
    /\ family = "opencode"
    /\ opencode_json' = d
    /\ target_dirs' = IF d.exists THEN create_dir_all(".opencode") ELSE target_dirs
    /\ UNCHANGED <<family, now, in_flight, global_config_file, opencode_config_file, last,
                   claude_files, codex_files, gemini_files>>

\* another writer removes the family's target directory with what is in it
RemoveTargetDir ==
    /\ \/ /\ family = "claude"
          /\ target_dirs' = target_dirs \ {".claude"}
          /\ settings_file' = NoFile
          /\ UNCHANGED <<codex_auth_json, codex_config_toml, gemini_env_file, opencode_json>>
       \/ /\ family = "codex"
          /\ target_dirs' = target_dirs \ {".codex"}
          /\ codex_auth_json' = NoFile
          /\ codex_config_toml' = NoFile
          /\ UNCHANGED <<settings_file, gemini_env_file, opencode_json>>
       \/ /\ family = "gemini"
          /\ target_dirs' = target_dirs \ {".gemini"}
          /\ gemini_env_file' = NoFile
          /\ UNCHANGED <<settings_file, codex_auth_json, codex_config_toml, opencode_json>>
       \/ /\ family = "opencode"
          /\ target_dirs' = target_dirs \ {".opencode"}
          /\ opencode_json' = NoFile
          /\ UNCHANGED <<settings_file, codex_auth_json, codex_config_toml, gemini_env_file>>
    /\ UNCHANGED <<family, now, in_flight, last, global_config_file, claude_config_file,
                   codex_config_file, gemini_config_file, gemini_settings_file,
                   opencode_config_file>>

ClaudeSession ==
    \/ \E s \in Sites :
          ClaudeStoreCall("claude.add_site", <<s, UrlOf[s], None>>,
                          claude_add_site(s, UrlOf[s], None, NoFault))
    \/ \E s \in Sites, b \in BaseUrls :
          ClaudeStoreCall("claude.update_site_config", <<s, Some(b), None, None>>,
                          claude_update_site_config(s, Some(b), None, None, NoFault))
    \/ \E s \in Sites :
          ClaudeStoreCall("claude.remove_site", <<s>>, claude_remove_site(s, NoFault))
    \/ \E s \in Sites, k \in SecretNames, v \in SecretValues :
          ClaudeStoreCall("claude.add_token", <<s, k, v>>, claude_add_token(s, k, v, NoFault))
    \/ \E s \in Sites, k \in SecretNames, v \in SecretValues :
          ClaudeStoreCall("claude.update_token", <<s, k, v>>,
                          claude_update_token(s, k, v, NoFault))
    \/ \E s \in Sites, k \in SecretNames :
          ClaudeStoreCall("claude.remove_token", <<s, k>>, claude_remove_token(s, k, NoFault))
    \/ GetActiveClaude
    \/ \E s \in Sites, k \in SecretNames, f \in ClaudeFaults : SwitchClaude(s, k, f)
    \/ ClearClaude(NoFault)

CodexSession ==
    \/ \E s \in Sites :
          CodexStoreCall("codex.add_site", <<s, UrlOf[s], None>>,
                         codex_add_site(s, UrlOf[s], None, NoFault))
    \/ \E s \in Sites, b \in BaseUrls :
          CodexStoreCall("codex.update_site_config", <<s, CodexPatch(Some(b))>>,
                         codex_update_site_config(s, CodexPatch(Some(b)), NoFault))
    \/ \E s \in Sites :
          CodexStoreCall("codex.delete_site", <<s>>, codex_delete_site(s, NoFault))
    \/ \E s \in Sites, k \in SecretNames, v \in SecretValues :
          CodexStoreCall("codex.add_api_key", <<s, k, v>>,
                         codex_add_api_key(s, k, v, NoFault))
    \/ \E s \in Sites, k \in SecretNames, v \in SecretValues :
          CodexStoreCall("codex.update_api_key", <<s, k, v>>,
                         codex_update_api_key(s, k, v, NoFault))
    \/ \E s \in Sites, k \in SecretNames :
          CodexStoreCall("codex.delete_api_key", <<s, k>>, codex_delete_api_key(s, k, NoFault))
    \/ GetActiveCodex
    \/ \E s \in Sites, k \in SecretNames, f \in CodexFaults : SwitchCodex(s, k, f)
    \/ ClearCodex(NoFault)

GeminiSession ==
    \/ \E s \in Sites :
          GeminiStoreCall("gemini.add_site", <<s, UrlOf[s], None>>,
                          gemini_add_site(s, UrlOf[s], None, NoFault))
    \/ \E s \in Sites, b \in BaseUrls :
          GeminiStoreCall("gemini.update_site_config", <<s, Some(b), None>>,
                          gemini_update_site_config(s, Some(b), None, NoFault))
    \/ \E s \in Sites :
          GeminiStoreCall("gemini.delete_site", <<s>>, gemini_delete_site(s, NoFault))
    \/ \E s \in Sites, k \in SecretNames, v \in SecretValues :
          GeminiStoreCall("gemini.add_api_key", <<s, k, v>>,
                          gemini_add_api_key(s, k, v, NoFault))
    \/ \E s \in Sites, k \in SecretNames, v \in SecretValues :
          GeminiStoreCall("gemini.update_api_key", <<s, k, v>>,
                          gemini_update_api_key(s, k, v, NoFault))
    \/ \E s \in Sites, k \in SecretNames :
          GeminiStoreCall("gemini.delete_api_key", <<s, k>>,
                          gemini_delete_api_key(s, k, NoFault))
    \/ GetActiveGemini
    \/ \E s \in Sites, k \in SecretNames, f \in GeminiFaults : SwitchGemini(s, k, f)
    \/ ClearGemini(NoFault)

OpenCodeSession ==
    \/ \E n \in Providers :
          OpenCodeStoreCall("opencode.add_provider", <<n, UrlOf["acme"], ApiKeyOf[n], None, None>>,
              opencode_add_provider(n, UrlOf["acme"], ApiKeyOf[n], None, None, NoFault))
    \/ \E n \in Providers :
          OpenCodeStoreCall("opencode.delete_provider", <<n>>,
                            opencode_delete_provider(n, NoFault))
    \/ \E n \in Providers, m \in ModelIds :
          OpenCodeStoreCall("opencode.add_model", <<n, m, OpenCodeModelInfo(m, None)>>,
                            opencode_add_model(n, m, OpenCodeModelInfo(m, None), NoFault))
    \/ \E n \in Providers, m \in ModelIds :
          OpenCodeStoreCall("opencode.delete_model", <<n, m>>,
                            opencode_delete_model(n, m, NoFault))
    \/ GetActiveOpenCode
    \/ \E mp \in Providers, sp \in Providers, mm \in ModelIds, sm \in ModelIds,
          f \in OpenCodeFaults : SwitchOpenCode(mp, mm, sp, sm, f)
    \/ ClearOpenCode(NoFault)

Init ==
    /\ family \in Families
    /\ now = 0
    /\ in_flight = <<>>
    /\ global_config_file = NoFile
    /\ claude_config_file = NoFile
    /\ settings_file = NoFile
    /\ codex_config_file = NoFile
    /\ codex_auth_json = NoFile
    /\ codex_config_toml = NoFile
    /\ gemini_config_file = NoFile
    /\ gemini_env_file = NoFile
    /\ gemini_settings_file = NoFile
    /\ opencode_config_file = NoFile
    /\ opencode_json = NoFile
    /\ target_dirs = {".claude"}
    /\ last = [op |-> "new", args |-> <<>>, ret |-> OkUnit]

\* Between two calls of the session another writer rewrites the family's target
\* file(s); the session sees it as the event "edit".
EditByHand ==
    /\ Call("edit", <<>>, OkUnit)
    /\ \/ /\ family = "claude"
          /\ settings_file' = LegacySettings
          /\ target_dirs' = create_dir_all(".claude")
          /\ UNCHANGED <<codex_auth_json, codex_config_toml, gemini_env_file, opencode_json>>
       \/ /\ family = "codex"
          /\ codex_auth_json' = AuthByHand
          /\ codex_config_toml' = TextByHand
          /\ target_dirs' = create_dir_all(".codex")
          /\ UNCHANGED <<settings_file, gemini_env_file, opencode_json>>
       \/ /\ family = "gemini"
          /\ gemini_env_file' = TextByHand
          /\ target_dirs' = create_dir_all(".gemini")
          /\ UNCHANGED <<settings_file, codex_auth_json, codex_config_toml, opencode_json>>
       \/ /\ family = "opencode"
          /\ opencode_json' = OpenCodeJsonByHand
          /\ target_dirs' = create_dir_all(".opencode")
          /\ UNCHANGED <<settings_file, codex_auth_json, codex_config_toml, gemini_env_file>>
    /\ UNCHANGED <<family, now, in_flight, global_config_file, claude_config_file, codex_config_file,
                   gemini_config_file, gemini_settings_file, opencode_config_file>>

Next == ClaudeSession \/ CodexSession \/ GeminiSession \/ OpenCodeSession

Spec == Init /\ [][Next]_vars

\* the session specification with the other writers of the target files
NextEdit == Next \/ EditByHand

SpecEdit == Init /\ [][NextEdit]_vars

(***************************************************************************)
(* The synchronizer specification: the four synchronizers called directly  *)
(* with active configurations of every shape, on target files that their   *)
(* other writers (the user, the tools that own the files) change between   *)
(* the calls.  `last` also keeps what the call found (did the target        *)
(* directory exist, what the target files held) and what it left in its    *)
(* target files.                                                           *)
(***************************************************************************)
SyncCall(op, args, ret, found, wrote) ==
    last' = [op |-> op, args |-> args, ret |-> ret, found |-> found, wrote |-> wrote]
Found(dir, files) == [dir |-> dir_exists(dir), files |-> files]

\* the active configurations handed to the synchronizers
VertexConfigs ==
    {VertexConfig_default,
     [VertexConfig_default EXCEPT !.enabled = TRUE],
     [enabled |-> TRUE, project_id |-> Some("proj-1"),
      base_url |-> Some("https://vertex.test"), skip_auth |-> TRUE],
     [enabled |-> FALSE, project_id |-> Some("proj-1"),
      base_url |-> Some("https://vertex.test"), skip_auth |-> TRUE]}
ClaudeActiveConfigs ==
    {[site |-> "acme", site_url |-> UrlOf["acme"], site_description |-> None,
      token_name |-> "primary", token |-> v, base_url |-> b, model |-> None,
      vertex |-> x] :
        v \in SecretValues, b \in {None} \cup {Some(u) : u \in BaseUrls}, x \in VertexConfigs}
CodexSiteConfigs ==
    {CodexSiteConfig_default,
     [base_url |-> Some("https://proxy.test"), model |-> Some("gpt-5"),
      model_reasoning_effort |-> Some("high"), model_provider |-> Some("custom"),
      network_access |-> Some("enabled"), disable_response_storage |-> Some(TRUE),
      wire_api |-> Some("responses")]}
CodexActiveConfigs ==
    {[site |-> s, site_url |-> UrlOf[s], site_description |-> None,
      api_key_name |-> "primary", api_key |-> v,
      base_url |-> c.base_url, model |-> c.model,
      model_reasoning_effort |-> c.model_reasoning_effort,
      model_provider |-> c.model_provider, network_access |-> c.network_access,
      disable_response_storage |-> c.disable_response_storage,
      wire_api |-> c.wire_api] :
        s \in Sites, v \in SecretValues, c \in CodexSiteConfigs}
GeminiActiveConfigs ==
    {[site |-> s, site_url |-> UrlOf[s], site_description |-> None,
      api_key_name |-> "primary", api_key |-> v, base_url |-> b, model |-> m] :
        s \in Sites, v \in SecretValues,
        b \in {None} \cup {Some(u) : u \in BaseUrls}, m \in {None, Some("gemini-pro")}}

StoredProviders == {"openai", "local", "azure"}
StoredProvider(n) ==
    serialize_provider(
        [OpenCodeProvider_new(n, UrlOf["acme"], ApiKeyOf[n], None, None)
            EXCEPT !.models = insert(EmptyMap, "gpt", OpenCodeModelInfo("gpt", None))])
OpenCodeStores ==
    {FileOf([version |-> "3.0.0", providers |-> [n \in P |-> StoredProvider(n)]]) :
        P \in SUBSET StoredProviders}
OpenCodeActiveConfigs ==
    {[main |-> OpenCodeModelReference(mp, "gpt"),
      small |-> OpenCodeModelReference(sp, "gpt")] :
        mp \in StoredProviders, sp \in StoredProviders}

SyncToSettings(c, fails) ==
    /\ family = "claude"
    /\ LET r == sync_to_settings(c, fails) IN
         /\ settings_file' = r.file
         /\ SyncCall("sync_to_settings", <<c>>, r.ret,
                     Found(".claude", <<settings_file>>), <<r.file>>)
    /\ UNCHANGED <<family, now, in_flight, target_dirs, global_config_file, claude_config_file,
                   codex_files, gemini_files, opencode_files>>
SyncToCodex(c, fails) ==
    /\ family = "codex"
    /\ LET r == sync_to_codex(c, fails) IN
         /\ codex_auth_json' = r.auth
         /\ codex_config_toml' = r.toml
         /\ target_dirs' = r.dirs
         /\ SyncCall("sync_to_codex", <<c>>, r.ret,
                     Found(".codex", <<codex_auth_json, codex_config_toml>>),
                     <<r.auth, r.toml>>)
    /\ UNCHANGED <<family, now, in_flight, global_config_file, codex_config_file,
                   claude_files, gemini_files, opencode_files>>
\* Faulty variant: also rewrites settings.json on a successful sync.
SyncToGemini_settings(c, fails) ==
    /\ family = "gemini"
    /\ LET r == sync_to_gemini(c, fails) IN
         /\ gemini_env_file' = r.file
         /\ target_dirs' = r.dirs
         /\ gemini_settings_file' =
                IF r.ret.ok THEN FileOf([selectedAuthType |-> "gemini-api-key"])
                ELSE gemini_settings_file
         /\ SyncCall("sync_to_gemini", <<c>>, r.ret,
                     Found(".gemini", <<gemini_env_file>>), <<r.file>>)
    /\ UNCHANGED <<family, now, in_flight, global_config_file, gemini_config_file,
                   claude_files, codex_files, opencode_files>>
SyncToGemini(c, fails) ==
    /\ family = "gemini"
    /\ LET r == sync_to_gemini(c, fails) IN
         /\ gemini_env_file' = r.file
         /\ target_dirs' = r.dirs
         /\ SyncCall("sync_to_gemini", <<c>>, r.ret,
                     Found(".gemini", <<gemini_env_file>>), <<r.file>>)
    /\ UNCHANGED <<family, now, in_flight, global_config_file, gemini_config_file,
                   gemini_settings_file, claude_files, codex_files, opencode_files>>
SyncToOpenCode(c, fails) ==
    /\ family = "opencode"
    /\ LET r == sync_to_opencode(c, fails) IN
         /\ opencode_json' = r.file
         /\ target_dirs' = r.dirs
         /\ SyncCall("sync_to_opencode", <<c>>, r.ret,
                     Found(".opencode", <<opencode_json>>), <<r.file>>)
    /\ UNCHANGED <<family, now, in_flight, global_config_file, opencode_config_file,
                   claude_files, codex_files, gemini_files>>

InitSync ==
    /\ family \in Families
    /\ now = 0
    /\ in_flight = <<>>
    /\ global_config_file = NoFile
    /\ claude_config_file = NoFile
    /\ settings_file = NoFile
    /\ codex_config_file = NoFile
    /\ codex_auth_json = NoFile
    /\ codex_config_toml = NoFile
    /\ gemini_config_file = NoFile
    /\ gemini_env_file = NoFile
    /\ gemini_settings_file = NoFile
    /\ opencode_config_file \in (IF family = "opencode" THEN OpenCodeStores ELSE {NoFile})
    /\ opencode_json = NoFile
    /\ target_dirs = {".claude"}
    /\ last = [op |-> "new", args |-> <<>>, ret |-> OkUnit,
               found |-> [dir |-> TRUE, files |-> <<>>], wrote |-> <<>>]

NextSync ==
    \/ RemoveTargetDir
    \/ \E d \in SettingsDocs : EditSettings(d)
    \/ \E d \in AuthDocs : EditAuthJson(d)
    \/ \E d \in TextDocs : EditConfigToml(d)
    \/ \E d \in TextDocs : EditEnv(d)
    \/ \E d \in OpenCodeJsonDocs : EditOpenCodeJson(d)
    \/ \E c \in ClaudeActiveConfigs, f \in {NoFault, {"settings.json"}} : SyncToSettings(c, f)
    \/ \E c \in CodexActiveConfigs, f \in {NoFault, {"auth.json"}, {"config.toml"}} :
          SyncToCodex(c, f)
    \/ \E c \in GeminiActiveConfigs, f \in {NoFault, {".env"}} : SyncToGemini(c, f)
    \/ \E c \in OpenCodeActiveConfigs, f \in {NoFault, {".opencode/opencode.json"}} :
          SyncToOpenCode(c, f)

SpecSync == InitSync /\ [][NextSync]_vars

(***************************************************************************)
(* The cross-family specification: the user runs one command module after  *)
(* another (main.rs dispatches on the subcommand), over stores that        *)
(* earlier sessions filled, and switches and clears the active reference   *)
(* of each family.  config.json is shared by the four families.            *)
(***************************************************************************)
FilledClaudeStore ==
    FileOf([ClaudeConfig_new EXCEPT !.sites =
        [s \in Sites |-> ClaudeSite_add_token(ClaudeSite_new(UrlOf[s], None),
                                              "primary", SecretValueSeq[1])]])
FilledCodexStore ==
    FileOf([CodexConfig_new EXCEPT !.sites =
        [s \in Sites |-> CodexSite_add_api_key(CodexSite_new(UrlOf[s], None),
                                               "primary", SecretValueSeq[1])]])
FilledGeminiStore ==
    FileOf([GeminiConfig_new EXCEPT !.sites =
        [s \in Sites |-> GeminiSite_add_api_key(GeminiSite_new(UrlOf[s], None),
                                                "primary", SecretValueSeq[1])]])
FilledOpenCodeStore ==
    FileOf([version |-> "3.0.0", providers |-> [n \in Providers |-> StoredProvider(n)]])

\* the user starts another command module
RunCommand(f) ==
    /\ family' = f
    /\ Call("main", <<f>>, OkUnit)
    /\ UNCHANGED <<now, in_flight, target_dirs, global_config_file, claude_files, codex_files,
                   gemini_files, opencode_files>>

InitFrame ==
    /\ family \in Families
    /\ now = 0
    /\ in_flight = <<>>
    /\ global_config_file = NoFile
    /\ claude_config_file = FilledClaudeStore
    /\ settings_file = NoFile
    /\ codex_config_file = FilledCodexStore
    /\ codex_auth_json = NoFile
    /\ codex_config_toml = NoFile
    /\ gemini_config_file = FilledGeminiStore
    /\ gemini_env_file = NoFile
    /\ gemini_settings_file = NoFile
    /\ opencode_config_file = FilledOpenCodeStore
    /\ opencode_json = NoFile
    /\ target_dirs = {".claude"}
    /\ last = [op |-> "new", args |-> <<>>, ret |-> OkUnit]

NextFrame ==
    \/ \E f \in Families : RunCommand(f)
    \/ \E s \in Sites : SwitchClaude(s, "primary", NoFault)
    \/ ClearClaude(NoFault)
    \/ \E s \in Sites : SwitchCodex(s, "primary", NoFault)
    \/ ClearCodex(NoFault)
    \/ \E s \in Sites : SwitchGemini(s, "primary", NoFault)
    \/ ClearGemini(NoFault)
    \/ \E n \in Providers : SwitchOpenCode(n, "gpt", n, "gpt", NoFault)
    \/ ClearOpenCode(NoFault)

SpecFrame == InitFrame /\ [][NextFrame]_vars

(***************************************************************************)
(* The store specification: one command module works on its family's       *)
(* credential store with every store operation, on present and absent      *)
(* sites and secrets, with every combination of given and omitted patch    *)
(* parameters.  The store files are plain JSON in ~/.cc-cli; a file left   *)
(* damaged there (an interrupted write, an edit by hand) is the event      *)
(* "damage".                                                               *)
(***************************************************************************)
SecretSlots == {<<"acme", "primary">>, <<"acme", "backup">>, <<"beta", "primary">>}
Given(v) == {None, Some(v)}
VertexOn == [enabled |-> TRUE, project_id |-> Some("proj-1"),
             base_url |-> Some("https://vertex.test"), skip_auth |-> TRUE]
CodexPatches ==
    {CodexSiteConfig_default, CodexPatch(Some("https://proxy.test")),
     [CodexSiteConfig_default EXCEPT !.model = Some("gpt-5")],
     [base_url |-> Some("https://proxy.test"), model |-> Some("gpt-5"),
      model_reasoning_effort |-> Some("high"), model_provider |-> Some("custom"),
      network_access |-> Some("enabled"), disable_response_storage |-> Some(TRUE),
      wire_api |-> Some("responses")]}

ClaudeStoreSession ==
    \/ \E s \in Sites :
          ClaudeStoreCall("claude.get_site", <<s>>,
                          Unchanged(claude_config_file, claude_get_site(s)))
    \/ \E s \in Sites :
          ClaudeStoreCall("claude.add_site", <<s, UrlOf[s], None>>,
                          claude_add_site(s, UrlOf[s], None, NoFault))
    \/ \E s \in Sites :
          ClaudeStoreCall("claude.remove_site", <<s>>, claude_remove_site(s, NoFault))
    \/ \E u \in Given("https://moved.test"), d \in Given("note") :
          ClaudeStoreCall("claude.update_site_metadata", <<"acme", u, d>>,
                          claude_update_site_metadata("acme", u, d, NoFault))
    \/ \E b \in Given("https://proxy.test"), m \in Given("opus"), x \in Given(VertexOn) :
          ClaudeStoreCall("claude.update_site_config", <<"acme", b, m, x>>,
                          claude_update_site_config("acme", b, m, x, NoFault))
    \/ \E sk \in SecretSlots :
          ClaudeStoreCall("claude.add_token", <<sk[1], sk[2], "sk-123">>,
                          claude_add_token(sk[1], sk[2], "sk-123", NoFault))
    \/ \E sk \in SecretSlots :
          ClaudeStoreCall("claude.update_token", <<sk[1], sk[2], "sk-456">>,
                          claude_update_token(sk[1], sk[2], "sk-456", NoFault))
    \/ \E sk \in SecretSlots :
          ClaudeStoreCall("claude.remove_token", <<sk[1], sk[2]>>,
                          claude_remove_token(sk[1], sk[2], NoFault))

CodexStoreSession ==
    \/ \E s \in Sites :
          CodexStoreCall("codex.get_site", <<s>>,
                         Unchanged(codex_config_file, codex_get_site(s)))
    \/ \E s \in Sites :
          CodexStoreCall("codex.add_site", <<s, UrlOf[s], None>>,
                         codex_add_site(s, UrlOf[s], None, NoFault))
    \/ \E s \in Sites :
          CodexStoreCall("codex.delete_site", <<s>>, codex_delete_site(s, NoFault))
    \/ \E u \in Given("https://moved.test"), d \in Given("note") :
          CodexStoreCall("codex.update_site_metadata", <<"acme", u, d>>,
                         codex_update_site_metadata("acme", u, d, NoFault))
    \/ \E p \in CodexPatches :
          CodexStoreCall("codex.update_site_config", <<"acme", p>>,
                         codex_update_site_config("acme", p, NoFault))
    \/ \E sk \in SecretSlots :
          CodexStoreCall("codex.add_api_key", <<sk[1], sk[2], "sk-123">>,
                         codex_add_api_key(sk[1], sk[2], "sk-123", NoFault))
    \/ \E sk \in SecretSlots :
          CodexStoreCall("codex.update_api_key", <<sk[1], sk[2], "sk-456">>,
                         codex_update_api_key(sk[1], sk[2], "sk-456", NoFault))
    \/ \E sk \in SecretSlots :
          CodexStoreCall("codex.delete_api_key", <<sk[1], sk[2]>>,
                         codex_delete_api_key(sk[1], sk[2], NoFault))

GeminiStoreSession ==
    \/ \E s \in Sites :
          GeminiStoreCall("gemini.get_site", <<s>>,
                          Unchanged(gemini_config_file, gemini_get_site(s)))
    \/ \E s \in Sites :
          GeminiStoreCall("gemini.add_site", <<s, UrlOf[s], None>>,
                          gemini_add_site(s, UrlOf[s], None, NoFault))
    \/ \E s \in Sites :
          GeminiStoreCall("gemini.delete_site", <<s>>, gemini_delete_site(s, NoFault))
    \/ \E u \in Given("https://moved.test"), d \in Given("note") :
          GeminiStoreCall("gemini.update_site_metadata", <<"acme", u, d>>,
                          gemini_update_site_metadata("acme", u, d, NoFault))
    \/ \E b \in Given("https://proxy.test"), m \in Given("gemini-pro") :
          GeminiStoreCall("gemini.update_site_config", <<"acme", b, m>>,
                          gemini_update_site_config("acme", b, m, NoFault))
    \/ \E sk \in SecretSlots :
          GeminiStoreCall("gemini.add_api_key", <<sk[1], sk[2], "sk-123">>,
                          gemini_add_api_key(sk[1], sk[2], "sk-123", NoFault))
    \/ \E sk \in SecretSlots :
          GeminiStoreCall("gemini.update_api_key", <<sk[1], sk[2], "sk-456">>,
                          gemini_update_api_key(sk[1], sk[2], "sk-456", NoFault))
    \/ \E sk \in SecretSlots :
          GeminiStoreCall("gemini.delete_api_key", <<sk[1], sk[2]>>,
                          gemini_delete_api_key(sk[1], sk[2], NoFault))

OpenCodeStoreSession ==
    \/ \E n \in Providers :
          OpenCodeStoreCall("opencode.get_provider", <<n>>,
                            Unchanged(opencode_config_file, opencode_get_provider(n)))
    \/ \E n \in Providers, d \in Given("note") :
          OpenCodeStoreCall("opencode.add_provider",
              <<n, UrlOf["acme"], ApiKeyOf[n], None, d>>,
              opencode_add_provider(n, UrlOf["acme"], ApiKeyOf[n], None, d, NoFault))
    \/ \E n \in Providers :
          OpenCodeStoreCall("opencode.delete_provider", <<n>>,
                            opencode_delete_provider(n, NoFault))
    \/ \E b \in Given("https://moved.test"), k \in Given("key-new"),
          npm \in Given("@ai-sdk/openai"), d \in Given("note") :
          OpenCodeStoreCall("opencode.update_provider_metadata", <<"openai", b, k, npm, d>>,
              opencode_update_provider_metadata("openai", b, k, npm, d, NoFault))
    \/ \E n \in Providers :
          OpenCodeStoreCall("opencode.update_api_key", <<n, "key-rotated">>,
                            opencode_update_api_key(n, "key-rotated", NoFault))
    \/ \E n \in Providers, m \in ModelIds :
          OpenCodeStoreCall("opencode.add_model", <<n, m, OpenCodeModelInfo(m, None)>>,
                            opencode_add_model(n, m, OpenCodeModelInfo(m, None), NoFault))
    \/ \E n \in Providers, m \in ModelIds :
          OpenCodeStoreCall("opencode.delete_model", <<n, m>>,
                            opencode_delete_model(n, m, NoFault))

\* the family's store file is left with content that is not the store's JSON
DamageStore ==
    /\ Call("damage", <<>>, OkUnit)
    /\ \/ /\ family = "claude"
          /\ claude_config_file' = Garbage
          /\ UNCHANGED <<codex_config_file, gemini_config_file, opencode_config_file>>
       \/ /\ family = "codex"
          /\ codex_config_file' = Garbage
          /\ UNCHANGED <<claude_config_file, gemini_config_file, opencode_config_file>>
       \/ /\ family = "gemini"
          /\ gemini_config_file' = Garbage
          /\ UNCHANGED <<claude_config_file, codex_config_file, opencode_config_file>>
       \/ /\ family = "opencode"
          /\ opencode_config_file' = Garbage
          /\ UNCHANGED <<claude_config_file, codex_config_file, gemini_config_file>>
    /\ UNCHANGED <<family, now, in_flight, target_dirs, global_config_file, settings_file,
                   codex_auth_json, codex_config_toml, gemini_env_file,
                   gemini_settings_file, opencode_json>>

NextStore ==
    \/ ClaudeStoreSession
    \/ CodexStoreSession
    \/ GeminiStoreSession
    \/ OpenCodeStoreSession
    \/ DamageStore

SpecStore == Init /\ [][NextStore]_vars

(***************************************************************************)
(* Vocabulary of the properties.                                           *)
(***************************************************************************)
SingleSecretFamilies == {"claude", "codex", "gemini"}

GetActiveOp ==
    [claude |-> "get_active_claude_config", codex |-> "get_active_codex_config",
     gemini |-> "get_active_gemini_config", opencode |-> "get_active_opencode_config"]
SwitchOp ==
    [claude |-> "switch_claude_config", codex |-> "switch_codex_config",
     gemini |-> "switch_gemini_config", opencode |-> "switch_opencode_config"]
AddSiteOp ==
    [claude |-> "claude.add_site", codex |-> "codex.add_site", gemini |-> "gemini.add_site"]
AddSecretOp ==
    [claude |-> "claude.add_token", codex |-> "codex.add_api_key",
     gemini |-> "gemini.add_api_key"]
RemoveSecretOp ==
    [claude |-> "claude.remove_token", codex |-> "codex.delete_api_key",
     gemini |-> "gemini.delete_api_key"]
StoreOps ==
    {"claude.add_site", "claude.update_site_metadata", "claude.update_site_config",
     "claude.remove_site", "claude.add_token", "claude.update_token", "claude.remove_token",
     "codex.add_site", "codex.update_site_metadata", "codex.update_site_config",
     "codex.delete_site", "codex.add_api_key", "codex.update_api_key",
     "codex.delete_api_key",
     "gemini.add_site", "gemini.update_site_metadata", "gemini.update_site_config",
     "gemini.delete_site", "gemini.add_api_key", "gemini.update_api_key",
     "gemini.delete_api_key",
     "opencode.add_provider", "opencode.delete_provider", "opencode.update_api_key",
     "opencode.add_model", "opencode.delete_model"}

\* an error message names x when x is one of its formatted arguments
Mentions(err, x) == \E i \in 1..Len(err) : err[i] = x

\* the reference config.json stores for a family (None when there is none)
StoredRef(fam) == unwrap(read_global_config(global_config_file).val).active[fam]

\* the sites of a family's credential store, and the secrets of one site
SitesOf(fam) ==
    IF fam = "claude" THEN unwrap(claude_read_config.val).sites
    ELSE IF fam = "codex" THEN unwrap(codex_read_config.val).sites
    ELSE unwrap(gemini_read_config.val).sites
SecretsOf(fam, s) == IF fam = "claude" THEN SitesOf(fam)[s].tokens ELSE SitesOf(fam)[s].api_keys

RefOf(fam, s, k) ==
    IF fam = "claude" THEN ClaudeActiveReference(s, k)
    ELSE IF fam = "codex" THEN CodexActiveReference(s, k) ELSE GeminiActiveReference(s, k)
RefSecret(fam, r) == IF fam = "claude" THEN r.token_name ELSE r.api_key_name
CfgSecretName(fam, c) == IF fam = "claude" THEN c.token_name ELSE c.api_key_name
CfgSecret(fam, c) == IF fam = "claude" THEN c.token ELSE c.api_key

SiteThere(fam, s) == contains_key(SitesOf(fam), s)
SecretThere(fam, s, k) == SiteThere(fam, s) /\ contains_key(SecretsOf(fam, s), k)

\* the stored reference names a site the store lacks / a secret its site lacks
DanglingSite(fam) ==
    is_some(StoredRef(fam)) /\ ~SiteThere(fam, unwrap(StoredRef(fam)).site)
DanglingSecret(fam) ==
    /\ is_some(StoredRef(fam))
    /\ SiteThere(fam, unwrap(StoredRef(fam)).site)
    /\ ~SecretThere(fam, unwrap(StoredRef(fam)).site, RefSecret(fam, unwrap(StoredRef(fam))))

\* the files outside ~/.cc-cli that the synchronizers project into
ExternalFiles ==
    <<settings_file, codex_auth_json, codex_config_toml, gemini_env_file,
      gemini_settings_file, opencode_json>>

(***************************************************************************)
(* C1.  Resolution: for a stored reference R of Claude, Codex or Gemini,   *)
(* get_active_<family> returns Some configuration if and only if the store *)
(* holds the site R.site and that site holds R's secret name; when the     *)
(* site is absent the error names the site, when only the secret is absent *)
(* the error names the secret and its site.                                *)
(***************************************************************************)
C1_Resolution ==
    \A fam \in SingleSecretFamilies :
        (last.op = GetActiveOp[fam] /\ is_some(StoredRef(fam))) =>
            LET r == unwrap(StoredRef(fam))
                k == RefSecret(fam, r)
            IN /\ (last.ret.ok /\ is_some(unwrap(last.ret.val))) <=> SecretThere(fam, r.site, k)
               /\ ~SecretThere(fam, r.site, k) => ~last.ret.ok
               /\ ~SiteThere(fam, r.site) =>
                     (Mentions(last.ret.err, r.site) /\ ~Mentions(last.ret.err, k))
               /\ (SiteThere(fam, r.site) /\ ~SecretThere(fam, r.site, k)) =>
                     (Mentions(last.ret.err, k) /\ Mentions(last.ret.err, r.site))

\* get_active_gemini_config has failed on a reference whose site is gone
C1_Witness ==
    /\ last.op = "get_active_gemini_config"
    /\ DanglingSite("gemini")
    /\ ~last.ret.ok
    /\ Mentions(last.ret.err, unwrap(StoredRef("gemini")).site)

(***************************************************************************)
(* C2.  Scenario A: add_site(s, url) stores url under s, add_secret(s, k,  *)
(* v) stores v under k, and a get_active_<family> that directly follows a  *)
(* successful switch_<family>(s, k) returns Some configuration whose site  *)
(* is s, whose secret name is k, whose secret is the stored value of k and *)
(* whose site URL is the stored URL of s.                                  *)
(***************************************************************************)
C2_SwitchThenGetActive ==
    [][\A fam \in SingleSecretFamilies :
        /\ (last'.op = AddSiteOp[fam] /\ last'.ret.ok) =>
              (SitesOf(fam)[last.args[1]].metadata.url = last.args[2])'
        /\ (last'.op = AddSecretOp[fam] /\ last'.ret.ok) =>
              (SecretsOf(fam, last.args[1])[last.args[2]] = last.args[3])'
        /\ (last.op = SwitchOp[fam] /\ last.ret.ok /\ last'.op = GetActiveOp[fam]) =>
              LET s == last.args[1]
                  k == last.args[2]
              IN /\ last'.ret.ok
                 /\ is_some(unwrap(last'.ret.val))
                 /\ LET c == unwrap(unwrap(last'.ret.val))
                    IN /\ c.site = s
                       /\ CfgSecretName(fam, c) = k
                       /\ CfgSecret(fam, c) = SecretsOf(fam, s)[k]
                       /\ c.site_url = SitesOf(fam)[s].metadata.url
      ]_vars

\* get_active_claude_config has returned the configuration of the stored
\* reference, for a site whose base URL differs from its URL
C2_Witness ==
    /\ last.op = "get_active_claude_config"
    /\ last.ret.ok
    /\ is_some(unwrap(last.ret.val))
    /\ LET c == unwrap(unwrap(last.ret.val))
       IN /\ c.site = "acme"
          /\ c.token = "sk-123"
          /\ c.site_url = UrlOf["acme"]
          /\ is_some(c.base_url)

C4_StoreFrame ==
    [][/\ (last'.op \in StoreOps) =>
             (global_config_file' = global_config_file /\ ExternalFiles' = ExternalFiles)
       /\ \A fam \in SingleSecretFamilies :
             (last'.op = GetActiveOp[fam] /\ DanglingSite(fam)') =>
                 (~last'.ret.ok /\ Mentions(last'.ret.err, unwrap(StoredRef(fam)).site))
      ]_vars

\* update_token has replaced the active token; settings.json holds the old one
C4_Witness ==
    /\ last.op = "claude.update_token"
    /\ last.ret.ok
    /\ StoredRef("claude") = Some(ClaudeActiveReference(last.args[1], last.args[2]))
    /\ settings_file.exists
    /\ settings_file.doc[1].o["env"].o["ANTHROPIC_AUTH_TOKEN"] # JStr(last.args[3])
    /\ SecretsOf("claude", last.args[1])[last.args[2]] = last.args[3]

(***************************************************************************)
(* C5.  Shared settings file: whatever sync_to_settings returns, every     *)
(* top-level key other than the six it strips at the top level (and other  *)
(* than env, the object it manages), and every key of the env object other *)
(* than the seven it strips inside env, keeps its value.                   *)
(***************************************************************************)
TopOf(file) ==
    IF file.exists /\ file.parses /\ is_object(file.doc[1]) THEN file.doc[1].o ELSE EmptyMap
EnvOf(file) ==
    IF contains_key(TopOf(file), "env") /\ is_object(TopOf(file)["env"])
    THEN TopOf(file)["env"].o ELSE EmptyMap
KeysKept(before, after, owned) ==
    \A k \in DOMAIN before \ owned : contains_key(after, k) /\ after[k] = before[k]

C5_ForeignKeysKept ==
    [][\A f \in {NoFault, {"settings.json"}} :
          (last'.op = "sync_to_settings" /\ SyncToSettings(last'.args[1], f)) =>
              /\ KeysKept(TopOf(settings_file), TopOf(settings_file'),
                          OwnedTopKeys \cup {"env"})
              /\ KeysKept(EnvOf(settings_file), EnvOf(settings_file'), OwnedEnvKeys)
      ]_vars

\* a standard configuration was synced into the example file: both foreign
\* keys are there, with the new base URL and no Vertex key
C5_Witness ==
    /\ last.op = "sync_to_settings"
    /\ last.ret.ok
    /\ settings_file = last.wrote[1]
    /\ contains_key(TopOf(settings_file), "unrelated_key")
    /\ TopOf(settings_file)["unrelated_key"] = JNum("42")
    /\ contains_key(EnvOf(settings_file), "SOME_OTHER_VAR")
    /\ EnvOf(settings_file)["SOME_OTHER_VAR"] = JStr("x")
    /\ contains_key(EnvOf(settings_file), "ANTHROPIC_BASE_URL")
    /\ ~contains_key(EnvOf(settings_file), "CLAUDE_CODE_USE_VERTEX")

(***************************************************************************)
(* C6.  Mode-switch cleanliness as the specification states it: a          *)
(* successful sync of a standard configuration directly after a successful *)
(* sync of a Vertex configuration leaves none of the five Vertex keys at   *)
(* the top level or in env, and a successful sync of a Vertex              *)
(* configuration directly after one of a standard configuration leaves no  *)
(* ANTHROPIC_BASE_URL at the top level or in env.                          *)
(***************************************************************************)
VertexKeys ==
    {"CLAUDE_CODE_USE_VERTEX", "ANTHROPIC_VERTEX_PROJECT_ID", "ANTHROPIC_VERTEX_BASE_URL",
     "CLAUDE_CODE_SKIP_VERTEX_AUTH", "CLAUDE_CODE_DISABLE_NONESSENTIAL_TRAFFIC"}
KeysOf(file) == DOMAIN TopOf(file) \cup DOMAIN EnvOf(file)
\* the previous call was a successful sync and nobody has touched the file since
JustSynced ==
    last.op = "sync_to_settings" /\ last.ret.ok /\ settings_file = last.wrote[1]

C6_ModeSwitchClean ==
    [][(JustSynced /\ last'.op = "sync_to_settings" /\ last'.ret.ok
          /\ SyncToSettings(last'.args[1], NoFault)) =>
              /\ (last.args[1].vertex.enabled /\ ~last'.args[1].vertex.enabled) =>
                     (VertexKeys \cap KeysOf(settings_file)' = {})
              /\ (~last.args[1].vertex.enabled /\ last'.args[1].vertex.enabled) =>
                     ("ANTHROPIC_BASE_URL" \notin KeysOf(settings_file)')
      ]_vars

\* Vertex, then standard, and a Vertex key is still at the top level
C6_Witness ==
    /\ JustSynced
    /\ ~last.args[1].vertex.enabled
    /\ contains_key(TopOf(settings_file), "CLAUDE_CODE_DISABLE_NONESSENTIAL_TRAFFIC")
    /\ VertexKeys \cap DOMAIN EnvOf(settings_file) = {}

(***************************************************************************)
(* C7.  OpenCode: the provider map sync_to_opencode writes holds exactly   *)
(* the stored providers among the main role's and the small role's, each   *)
(* as stored, and no other provider of the store; one provider shared by   *)
(* both roles is one entry.                                                *)
(***************************************************************************)
C7_OnlyActiveProviders ==
    (last.op = "sync_to_opencode" /\ last.ret.ok) =>
        LET c == last.args[1]
            out == last.wrote[1].doc[1].provider
            stored == opencode_config_file.doc[1].providers
            roles == {c.main.provider, c.small.provider}
        IN /\ DOMAIN out = roles \cap DOMAIN stored
           /\ \A n \in DOMAIN out : out[n] = stored[n]
           /\ (c.main.provider = c.small.provider) => Cardinality(DOMAIN out) <= 1

\* both roles on one stored provider, two more providers in the store
C7_Witness ==
    /\ last.op = "sync_to_opencode"
    /\ last.ret.ok
    /\ last.args[1].main.provider = last.args[1].small.provider
    /\ DOMAIN opencode_config_file.doc[1].providers = StoredProviders
    /\ DOMAIN last.wrote[1].doc[1].provider = {last.args[1].main.provider}
    /\ opencode_json = last.wrote[1]

(***************************************************************************)
(* C8.  Fully-owned formats: a successful sync of Codex, Gemini or         *)
(* OpenCode with the active configuration of the previous successful sync  *)
(* leaves in the target files exactly what that previous sync left,        *)
(* whatever other writers put into the files in between (the store does    *)
(* not change).                                                            *)
(***************************************************************************)
C8_OwnedRegeneration ==
    [][/\ (last.op = "sync_to_codex" /\ last.ret.ok
             /\ SyncToCodex(last.args[1], NoFault)) =>
                 (last'.ret.ok /\ <<codex_auth_json', codex_config_toml'>> = last.wrote)
       /\ (last.op = "sync_to_gemini" /\ last.ret.ok
             /\ SyncToGemini(last.args[1], NoFault)) =>
                 (last'.ret.ok /\ <<gemini_env_file'>> = last.wrote)
       /\ (last.op = "sync_to_opencode" /\ last.ret.ok
             /\ SyncToOpenCode(last.args[1], NoFault)) =>
                 (last'.ret.ok /\ <<opencode_json'>> = last.wrote)
      ]_vars

\* .env was synced and then edited by hand: the next sync starts from other content
C8_Witness ==
    /\ last.op = "sync_to_gemini"
    /\ last.ret.ok
    /\ gemini_env_file # last.wrote[1]
    /\ gemini_env_file = FileOf(<< <<"# edited by hand">> >>)

(***************************************************************************)
(* C9.  switch_<family>(site, secret) of Claude, Codex and Gemini: when    *)
(* the store lacks the site, or the site lacks the secret name, the call   *)
(* fails, the error names the missing site (resp. the missing secret), and *)
(* config.json and every external file are as before the call.             *)
(***************************************************************************)
C9_SwitchValidation ==
    [][\A fam \in SingleSecretFamilies :
          (last'.op = SwitchOp[fam] /\ ~SecretThere(fam, last'.args[1], last'.args[2])) =>
              /\ ~last'.ret.ok
              /\ IF SiteThere(fam, last'.args[1])
                 THEN Mentions(last'.ret.err, last'.args[2])
                 ELSE Mentions(last'.ret.err, last'.args[1])
                      /\ ~Mentions(last'.ret.err, last'.args[2])
              /\ global_config_file' = global_config_file
              /\ ExternalFiles' = ExternalFiles
      ]_vars

\* switch_codex_config was refused for a missing key while another reference is stored
C9_Witness ==
    /\ last.op = "switch_codex_config"
    /\ ~last.ret.ok
    /\ SiteThere("codex", last.args[1])
    /\ ~SecretThere("codex", last.args[1], last.args[2])
    /\ is_some(StoredRef("codex"))
    /\ codex_auth_json.exists

(***************************************************************************)
(* C10.  Order and no rollback: when the write of config.json fails, no    *)
(* external file has been touched; when the synchronizer's write fails,    *)
(* the switch returns that error, config.json holds the new reference and  *)
(* the file whose write failed holds its previous content.                 *)
(***************************************************************************)
GlobalWriteFailed == Err(<<"writing the global config failed">>)

C10_NoRollback ==
    [][/\ \A fam \in SingleSecretFamilies :
             (last'.op = SwitchOp[fam]) =>
                 LET new == Some(RefOf(fam, last'.args[1], last'.args[2])) IN
                 /\ (last'.ret = GlobalWriteFailed) =>
                        /\ global_config_file' = global_config_file
                        /\ ExternalFiles' = ExternalFiles
                 /\ (last'.ret.ok \/ last'.ret.err \in
                        {<<"writing settings.json failed">>, <<"writing auth.json failed">>,
                         <<"writing config.toml failed">>, <<"writing .env failed">>}) =>
                        StoredRef(fam)' = new
       /\ (last'.op = SwitchOp["claude"] /\ last'.ret = Err(<<"writing settings.json failed">>))
             => settings_file' = settings_file
       /\ (last'.op = SwitchOp["codex"] /\ last'.ret = Err(<<"writing auth.json failed">>))
             => (codex_auth_json' = codex_auth_json /\ codex_config_toml' = codex_config_toml)
       /\ (last'.op = SwitchOp["codex"] /\ last'.ret = Err(<<"writing config.toml failed">>))
             => codex_config_toml' = codex_config_toml
       /\ (last'.op = SwitchOp["gemini"] /\ last'.ret = Err(<<"writing .env failed">>))
             => gemini_env_file' = gemini_env_file
      ]_vars

\* the write of settings.json failed: the new reference is stored, the file is stale
C10_Witness ==
    /\ last.op = "switch_claude_config"
    /\ last.ret = Err(<<"writing settings.json failed">>)
    /\ StoredRef("claude") = Some(ClaudeActiveReference(last.args[1], last.args[2]))
    /\ settings_file.exists
    /\ settings_file.doc[1].o["env"].o["ANTHROPIC_AUTH_TOKEN"] #
          JStr(SecretsOf("claude", last.args[1])[last.args[2]])

(***************************************************************************)
(* C11.  get_active_<family> of every family returns Ok(None) exactly when *)
(* config.json holds no reference for the family; when it holds one that   *)
(* does not resolve against the store the result is an error, so "not      *)
(* configured" and "dangling reference" never look the same.               *)
(***************************************************************************)
ProvidersOf == unwrap(opencode_read_config.val).providers

\* one role of the OpenCode reference names a stored provider and one of its models
RoleThere(role) ==
    /\ contains_key(ProvidersOf, role.provider)
    /\ contains_key(ProvidersOf[role.provider].models, role.model)

\* the stored reference of the family resolves against the family's store
Resolves(fam) ==
    LET r == unwrap(StoredRef(fam)) IN
    IF fam = "opencode" THEN RoleThere(r.main) /\ RoleThere(r.small)
    ELSE SecretThere(fam, r.site, RefSecret(fam, r))

ActiveNow(fam) ==
    unwrap(unwrap((IF fam = "claude" THEN get_active_claude_config(global_config_file)
                   ELSE IF fam = "codex" THEN get_active_codex_config(global_config_file)
                   ELSE IF fam = "gemini" THEN get_active_gemini_config(global_config_file)
                   ELSE get_active_opencode_config(global_config_file)).val))

C12_ReSwitchRewrites ==
    [][/\ \A fam \in SingleSecretFamilies :
            (/\ last'.op = SwitchOp[fam]
             /\ last'.ret.ok
             /\ StoredRef(fam) = Some(RefOf(fam, last'.args[1], last'.args[2]))) =>
                LET cfg == ActiveNow(fam)
                    v == SecretsOf(fam, last'.args[1])[last'.args[2]]
                IN /\ CfgSecret(fam, cfg) = v
                   /\ fam = "claude" =>
                        /\ settings_file' = sync_to_settings(cfg, NoFault).file
                        /\ EnvOf(settings_file')["ANTHROPIC_AUTH_TOKEN"] = JStr(v)
                   /\ fam = "codex" =>
                        /\ codex_auth_json' = FileOf(JObj([OPENAI_API_KEY |-> JStr(v)]))
                        /\ codex_config_toml' = FileOf(config_toml_lines(cfg))
                   /\ fam = "gemini" =>
                        /\ gemini_env_file' = FileOf(env_lines(cfg))
                        /\ Mentions(gemini_env_file'.doc[1], <<"GEMINI_API_KEY", "=", v>>)
       /\ (/\ last'.op = "switch_opencode_config"
           /\ last'.ret.ok
           /\ StoredRef("opencode") =
                  Some(OpenCodeActiveReference(
                           OpenCodeModelReference(last'.args[1], last'.args[2]),
                           OpenCodeModelReference(last'.args[3], last'.args[4])))) =>
              opencode_json' = FileOf(sync_data(ActiveNow("opencode"),
                                                unwrap(opencode_read_config.val)))
      ]_vars

\* Codex was switched to (acme, primary) and auth.json and config.toml were edited by
\* hand since: the state a repeated switch starts from
C12_Witness ==
    /\ last.op = "edit"
    /\ StoredRef("codex") = Some(CodexActiveReference("acme", "primary"))
    /\ SecretThere("codex", "acme", "primary")
    /\ codex_auth_json = AuthByHand
    /\ codex_config_toml = TextByHand

(***************************************************************************)
(* C13.  get_active_<family> recomputes the configuration from the store   *)
(* as it is at the call: the secret value and the site settings it returns *)
(* are the stored ones, and a get_active that directly follows a           *)
(* successful update_secret or update_site_config of the referenced site   *)
(* returns the updated value, with no switch in between.                   *)
(***************************************************************************)
UpdateSecretOp ==
    [claude |-> "claude.update_token", codex |-> "codex.update_api_key",
     gemini |-> "gemini.update_api_key"]
UpdateSiteConfigOp ==
    [claude |-> "claude.update_site_config", codex |-> "codex.update_site_config",
     gemini |-> "gemini.update_site_config"]

\* the base_url argument of an update_site_config call
BaseUrlArg(fam, args) == IF fam = "codex" THEN args[2].base_url ELSE args[2]

C13_RecomputedOnDemand ==
    [][\A fam \in SingleSecretFamilies :
          last'.op = GetActiveOp[fam] =>
            /\ (last'.ret.ok /\ is_some(unwrap(last'.ret.val))) =>
                  LET cfg == unwrap(unwrap(last'.ret.val)) IN
                    /\ CfgSecret(fam, cfg) = SecretsOf(fam, cfg.site)[CfgSecretName(fam, cfg)]
                    /\ cfg.base_url = SitesOf(fam)[cfg.site].config.base_url
                    /\ cfg.model = SitesOf(fam)[cfg.site].config.model
                    /\ cfg.site_url = SitesOf(fam)[cfg.site].metadata.url
            /\ (/\ last.op = UpdateSecretOp[fam]
                /\ last.ret.ok
                /\ StoredRef(fam) = Some(RefOf(fam, last.args[1], last.args[2]))) =>
                  /\ last'.ret.ok
                  /\ is_some(unwrap(last'.ret.val))
                  /\ CfgSecret(fam, unwrap(unwrap(last'.ret.val))) = last.args[3]
            /\ (/\ last.op = UpdateSiteConfigOp[fam]
                /\ last.ret.ok
                /\ is_some(StoredRef(fam))
                /\ unwrap(StoredRef(fam)).site = last.args[1]
                /\ last'.ret.ok) =>
                  /\ is_some(unwrap(last'.ret.val))
                  /\ unwrap(unwrap(last'.ret.val)).base_url = BaseUrlArg(fam, last.args)
      ]_vars

\* get_active returned the updated key while auth.json still holds the key of the switch
C13_Witness ==
    /\ last.op = "get_active_codex_config"
    /\ last.ret.ok
    /\ is_some(unwrap(last.ret.val))
    /\ unwrap(unwrap(last.ret.val)).api_key = "sk-456"
    /\ unwrap(unwrap(last.ret.val)).base_url = Some("https://proxy.test")
    /\ codex_auth_json = FileOf(JObj([OPENAI_API_KEY |-> JStr("sk-123")]))

(***************************************************************************)
(* C14.  config.json holds one slot per family, each empty or holding one  *)
(* reference, and switch_<family> and clear_<family>_active change only    *)
(* their own family's slot: the other three slots, the four credential     *)
(* stores and the other families' target files are as before the call.     *)
(***************************************************************************)
ClearOp ==
    [claude |-> "clear_claude_active", codex |-> "clear_codex_active",
     gemini |-> "clear_gemini_active", opencode |-> "clear_opencode_active"]

\* a family's files outside ~/.cc-cli
TargetsOf(fam) ==
    IF fam = "claude" THEN <<settings_file>>
    ELSE IF fam = "codex" THEN <<codex_auth_json, codex_config_toml>>
    ELSE IF fam = "gemini" THEN <<gemini_env_file, gemini_settings_file>>
    ELSE <<opencode_json>>

CredentialStores ==
    <<claude_config_file, codex_config_file, gemini_config_file, opencode_config_file>>

\* the `active` block has the four slots, each None or Some(reference)
OneSlotPerFamily ==
    LET active == unwrap(read_global_config(global_config_file).val).active IN
    /\ DOMAIN active = Families
    /\ \A fam \in Families : Len(active[fam]) <= 1

C14_OwnSlotOnly ==
    [][\A fam \in Families :
          last'.op \in {SwitchOp[fam], ClearOp[fam]} =>
              /\ OneSlotPerFamily'
              /\ \A g \in Families \ {fam} :
                    /\ StoredRef(g)' = StoredRef(g)
                    /\ TargetsOf(g)' = TargetsOf(g)
              /\ CredentialStores' = CredentialStores
              /\ last'.op = ClearOp[fam] => (last'.ret.ok /\ StoredRef(fam)' = None)
      ]_vars

\* Codex was cleared while the references of Claude and Gemini, set earlier, stay
C14_Witness ==
    /\ last.op = "clear_codex_active"
    /\ last.ret.ok
    /\ StoredRef("codex") = None
    /\ codex_auth_json.exists
    /\ StoredRef("claude") = Some(ClaudeActiveReference("acme", "primary"))
    /\ StoredRef("gemini") = Some(GeminiActiveReference("beta", "primary"))
    /\ settings_file.exists

(***************************************************************************)
(* C15.  Duplicate adds are rejected without effect: add_site of a site    *)
(* the store holds, and add_secret of a secret name its site holds, return *)
(* an already-exists error and leave the store file as it was; add_secret  *)
(* on a site the store lacks returns the site-not-found error, which is    *)
(* not an already-exists error, and leaves the store file as it was.       *)
(***************************************************************************)
StoreOf ==
    [claude |-> claude_config_file, codex |-> codex_config_file,
     gemini |-> gemini_config_file, opencode |-> opencode_config_file]
StoreReads(fam) == ~StoreOf[fam].exists \/ StoreOf[fam].parses

\* the two kinds of error message of the store operations
SaysAlreadyExists(err) ==
    \E i \in 1..Len(err) :
        err[i] \in {"' already exists", "' already exists in site '",
                    "' already exists in Provider '"}
SaysNotFound(err) ==
    \E i \in 1..Len(err) :
        err[i] \in {"' does not exist", "' does not exist in site '",
                    "' does not exist in Provider '"}
RejectedUnchanged(fam) == ~last'.ret.ok /\ StoreOf[fam]' = StoreOf[fam]

C15_DuplicateAddRejected ==
    [][/\ \A fam \in SingleSecretFamilies :
             StoreReads(fam) =>
               /\ (last'.op = AddSiteOp[fam] /\ SiteThere(fam, last'.args[1])) =>
                     /\ RejectedUnchanged(fam)
                     /\ SaysAlreadyExists(last'.ret.err)
                     /\ Mentions(last'.ret.err, last'.args[1])
               /\ (last'.op = AddSecretOp[fam]
                   /\ SecretThere(fam, last'.args[1], last'.args[2])) =>
                     /\ RejectedUnchanged(fam)
                     /\ SaysAlreadyExists(last'.ret.err)
                     /\ Mentions(last'.ret.err, last'.args[2])
               /\ (last'.op = AddSecretOp[fam] /\ ~SiteThere(fam, last'.args[1])) =>
                     /\ RejectedUnchanged(fam)
                     /\ last'.ret.err = site_missing(last'.args[1])
                     /\ SaysNotFound(last'.ret.err)
                     /\ ~SaysAlreadyExists(last'.ret.err)
       /\ (/\ StoreReads("opencode")
           /\ last'.op = "opencode.add_provider"
           /\ contains_key(ProvidersOf, last'.args[1])) =>
             /\ RejectedUnchanged("opencode")
             /\ SaysAlreadyExists(last'.ret.err)
      ]_vars

\* a second add of acme's backup key was rejected; the key and its site are as they were
C15_Witness ==
    /\ last.op = "gemini.add_api_key"
    /\ last.args = <<"acme", "backup", "sk-123">>
    /\ ~last.ret.ok
    /\ SaysAlreadyExists(last.ret.err)
    /\ StoreReads("gemini")
    /\ SecretThere("gemini", "acme", "backup")
    /\ SecretsOf("gemini", "acme")["backup"] = "sk-456"

(***************************************************************************)
(* C16.  Operations on missing targets are rejected without effect:        *)
(* remove_site, and every secret or settings operation, on a site the      *)
(* store lacks return the site-not-found error; update_secret and          *)
(* remove_secret of a secret name the site lacks return a not-found error  *)
(* naming the secret; in each case the store file is as it was.  A         *)
(* successful update_secret changes the named secret's value and nothing   *)
(* else, a successful remove_secret removes the named secret and nothing   *)
(* else (the site's updated_at apart).                                     *)
(***************************************************************************)
RemoveSiteOp ==
    [claude |-> "claude.remove_site", codex |-> "codex.delete_site",
     gemini |-> "gemini.delete_site"]
UpdateSiteMetadataOp ==
    [claude |-> "claude.update_site_metadata", codex |-> "codex.update_site_metadata",
     gemini |-> "gemini.update_site_metadata"]
\* the operations that need their site (first argument) to be in the store
OnSiteOps(fam) ==
    {RemoveSiteOp[fam], UpdateSiteMetadataOp[fam], UpdateSiteConfigOp[fam],
     AddSecretOp[fam], UpdateSecretOp[fam], RemoveSecretOp[fam]}
OnProviderOps ==
    {"opencode.delete_provider", "opencode.update_provider_metadata",
     "opencode.update_api_key", "opencode.add_model", "opencode.delete_model"}

\* a site without its secrets and without updated_at
SiteSettings(fam, s) ==
    [metadata |-> [SitesOf(fam)[s].metadata EXCEPT !.updated_at = 0],
     config |-> SitesOf(fam)[s].config]
\* the store changed in the secrets of site s only
OnlySecretsOf(fam, s) ==
    /\ StoreReads(fam)'
    /\ DOMAIN SitesOf(fam)' = DOMAIN SitesOf(fam)
    /\ \A t \in DOMAIN SitesOf(fam) \ {s} : SitesOf(fam)'[t] = SitesOf(fam)[t]
    /\ SiteSettings(fam, s)' = SiteSettings(fam, s)

C16_MissingTargetRejected ==
    [][/\ \A fam \in SingleSecretFamilies :
             StoreReads(fam) =>
               /\ (last'.op \in OnSiteOps(fam) /\ ~SiteThere(fam, last'.args[1])) =>
                     /\ RejectedUnchanged(fam)
                     /\ last'.ret.err = site_missing(last'.args[1])
               /\ (/\ last'.op \in {UpdateSecretOp[fam], RemoveSecretOp[fam]}
                   /\ SiteThere(fam, last'.args[1])
                   /\ ~SecretThere(fam, last'.args[1], last'.args[2])) =>
                     /\ RejectedUnchanged(fam)
                     /\ SaysNotFound(last'.ret.err)
                     /\ Mentions(last'.ret.err, last'.args[2])
               /\ \A s \in Sites, k \in {"primary", "backup"} :
                     /\ (/\ last'.op = UpdateSecretOp[fam]
                         /\ last'.args[1] = s /\ last'.args[2] = k
                         /\ SecretThere(fam, s, k)) =>
                           /\ last'.ret.ok
                           /\ OnlySecretsOf(fam, s)
                           /\ SecretsOf(fam, s)' =
                                  [SecretsOf(fam, s) EXCEPT ![k] = last'.args[3]]
                     /\ (/\ last'.op = RemoveSecretOp[fam]
                         /\ last'.args[1] = s /\ last'.args[2] = k
                         /\ SecretThere(fam, s, k)) =>
                           /\ last'.ret.ok
                           /\ OnlySecretsOf(fam, s)
                           /\ SecretsOf(fam, s)' = remove(SecretsOf(fam, s), k)
       /\ (/\ StoreReads("opencode")
           /\ last'.op \in OnProviderOps
           /\ ~contains_key(ProvidersOf, last'.args[1])) =>
             /\ RejectedUnchanged("opencode")
             /\ last'.ret.err = provider_missing(last'.args[1])
      ]_vars

\* acme's primary key was updated; its backup key and beta's key are the added ones
C16_Witness ==
    /\ last.op = "codex.update_api_key"
    /\ last.args = <<"acme", "primary", "sk-456">>
    /\ last.ret.ok
    /\ SecretsOf("codex", "acme") = [primary |-> "sk-456", backup |-> "sk-123"]
    /\ SecretThere("codex", "beta", "primary")
    /\ SecretsOf("codex", "beta")["primary"] = "sk-123"

(***************************************************************************)
(* C17.  Sparse-patch updates: after a successful update_site_metadata or  *)
(* update_site_config (update_provider_metadata for OpenCode), each field  *)
(* whose parameter was Some(v) holds v, each field whose parameter was     *)
(* None holds what it held before, and no other site, secret or field      *)
(* changed (the site's updated_at apart).  C17_SparsePatchSites is the     *)
(* statement for the sites of Claude, Codex and Gemini,                    *)
(* C17_SparsePatchProviders the one for the providers of OpenCode, and     *)
(* C17_SparsePatch the whole.                                              *)
(***************************************************************************)
\* an Option field after a patch with parameter p
Patched(old, p) == IF is_some(p) THEN p ELSE old

\* the store changed in the metadata and settings of site s only
OnlySettingsOf(fam, s) ==
    /\ StoreReads(fam)'
    /\ DOMAIN SitesOf(fam)' = DOMAIN SitesOf(fam)
    /\ \A t \in DOMAIN SitesOf(fam) \ {s} : SitesOf(fam)'[t] = SitesOf(fam)[t]
    /\ SecretsOf(fam, s)' = SecretsOf(fam, s)
    /\ SitesOf(fam)'[s].metadata.created_at = SitesOf(fam)[s].metadata.created_at

MetadataPatched(fam, s) ==
    /\ OnlySettingsOf(fam, s)
    /\ SitesOf(fam)'[s].config = SitesOf(fam)[s].config
    /\ SitesOf(fam)'[s].metadata.url =
           IF is_some(last'.args[2]) THEN unwrap(last'.args[2])
           ELSE SitesOf(fam)[s].metadata.url
    /\ SitesOf(fam)'[s].metadata.description =
           Patched(SitesOf(fam)[s].metadata.description, last'.args[3])

ConfigPatched(fam, s) ==
    LET old == SitesOf(fam)[s].config
        new == SitesOf(fam)'[s].config IN
    /\ OnlySettingsOf(fam, s)
    /\ SitesOf(fam)'[s].metadata.url = SitesOf(fam)[s].metadata.url
    /\ SitesOf(fam)'[s].metadata.description = SitesOf(fam)[s].metadata.description
    /\ DOMAIN new = DOMAIN old
    /\ IF fam = "codex"
       THEN \A f \in DOMAIN old : new[f] = Patched(old[f], last'.args[2][f])
       ELSE /\ new.base_url = Patched(old.base_url, last'.args[2])
            /\ new.model = Patched(old.model, last'.args[3])
            /\ fam = "claude" =>
                  new.vertex = IF is_some(last'.args[4]) THEN unwrap(last'.args[4])
                               ELSE old.vertex

C17_SparsePatchSites ==
    [][\A fam \in SingleSecretFamilies, s \in Sites :
          (StoreReads(fam) /\ SiteThere(fam, s)) =>
            /\ (last'.op = UpdateSiteMetadataOp[fam] /\ last'.args[1] = s) =>
                  last'.ret.ok /\ MetadataPatched(fam, s)
            /\ (last'.op = UpdateSiteConfigOp[fam] /\ last'.args[1] = s) =>
                  last'.ret.ok /\ ConfigPatched(fam, s)
      ]_vars

\* what get_provider returns for a stored provider
ProviderOf(n) == unwrap(unwrap(opencode_get_provider(n).val))

ProviderPatched(n) ==
    LET old == ProviderOf(n)
        new == ProviderOf(n)' IN
    /\ StoreReads("opencode")'
    /\ DOMAIN ProvidersOf' = DOMAIN ProvidersOf
    /\ \A t \in DOMAIN ProvidersOf \ {n} : ProvidersOf'[t] = ProvidersOf[t]
    /\ new.name = old.name
    /\ new.models = old.models
    /\ new.options.base_url =
           IF is_some(last'.args[2]) THEN unwrap(last'.args[2]) ELSE old.options.base_url
    /\ new.options.api_key =
           IF is_some(last'.args[3]) THEN unwrap(last'.args[3]) ELSE old.options.api_key
    /\ new.npm = Patched(old.npm, last'.args[4])
    /\ new.metadata.description = Patched(old.metadata.description, last'.args[5])

C17_SparsePatchProviders ==
    [][\A n \in Providers :
          (/\ StoreReads("opencode")
           /\ contains_key(ProvidersOf, n)
           /\ last'.op = "opencode.update_provider_metadata"
           /\ last'.args[1] = n) =>
              last'.ret.ok /\ ProviderPatched(n)
      ]_vars

C17_SparsePatch ==
    [][/\ \A fam \in SingleSecretFamilies, s \in Sites :
             (StoreReads(fam) /\ SiteThere(fam, s)) =>
               /\ (last'.op = UpdateSiteMetadataOp[fam] /\ last'.args[1] = s) =>
                     last'.ret.ok /\ MetadataPatched(fam, s)
               /\ (last'.op = UpdateSiteConfigOp[fam] /\ last'.args[1] = s) =>
                     last'.ret.ok /\ ConfigPatched(fam, s)
       /\ \A n \in Providers :
             (/\ StoreReads("opencode")
              /\ contains_key(ProvidersOf, n)
              /\ last'.op = "opencode.update_provider_metadata"
              /\ last'.args[1] = n) =>
                 last'.ret.ok /\ ProviderPatched(n)
      ]_vars

\* update_provider_metadata was given a description and a base_url and returned Ok;
\* the stored provider has the base_url and no description
C17_Witness ==
    /\ last.op = "opencode.update_provider_metadata"
    /\ last.args = <<"openai", Some("https://moved.test"), None, None, Some("note")>>
    /\ last.ret.ok
    /\ StoreReads("opencode")
    /\ contains_key(ProvidersOf, "openai")
    /\ ProviderOf("openai").options.base_url = "https://moved.test"
    /\ ProviderOf("openai").metadata.description = None

(***************************************************************************)
(* C18.  A settings file that is there and does not parse is treated as    *)
(* absent: sync_to_settings does not fail because of it (it fails only     *)
(* when its write fails) and writes an object whose single key is env,     *)
(* holding the synchronizer's env keys.                                    *)
(***************************************************************************)
C18_MalformedAsAbsent ==
    [][\A f \in {NoFault, {"settings.json"}} :
          (/\ last'.op = "sync_to_settings"
           /\ settings_file = Garbage
           /\ SyncToSettings(last'.args[1], f)) =>
              /\ last'.ret.ok <=> f = NoFault
              /\ last'.ret.ok =>
                    /\ settings_file' = FileOf(JObj([env |-> new_env(last'.args[1])]))
                    /\ DOMAIN EnvOf(settings_file') \subseteq OwnedEnvKeys
              /\ ~last'.ret.ok =>
                    /\ last'.ret.err = <<"writing settings.json failed">>
                    /\ settings_file' = settings_file
      ]_vars

\* the sync found a file that does not parse and left the token and the base URL
C18_Witness ==
    /\ last.op = "sync_to_settings"
    /\ last.found.files = <<Garbage>>
    /\ last.ret.ok
    /\ settings_file =
          FileOf(JObj([env |-> JObj([ANTHROPIC_AUTH_TOKEN |-> JStr("sk-123"),
                                     ANTHROPIC_BASE_URL |-> JStr("https://proxy.test")])]))

(***************************************************************************)
(* C19.  A synchronizer called while its family's target directory does    *)
(* not exist creates the directory, succeeds and writes its file(s); when  *)
(* the directory exists the set of directories is unchanged.               *)
(* C19_DirCreatedBySync is the statement for sync_to_codex, sync_to_gemini *)
(* and sync_to_opencode, C19_DirCreated the one for all four               *)
(* synchronizers.                                                          *)
(***************************************************************************)
SyncOp ==
    [claude |-> "sync_to_settings", codex |-> "sync_to_codex",
     gemini |-> "sync_to_gemini", opencode |-> "sync_to_opencode"]
TargetDir ==
    [claude |-> ".claude", codex |-> ".codex", gemini |-> ".gemini",
     opencode |-> ".opencode"]
WrittenBy ==
    [claude |-> <<settings_file>>, codex |-> <<codex_auth_json, codex_config_toml>>,
     gemini |-> <<gemini_env_file>>, opencode |-> <<opencode_json>>]

\* the step is the family's synchronizer called with every write succeeding
SyncStep(fam) ==
    /\ last'.op = SyncOp[fam]
    /\ \/ fam = "claude" /\ SyncToSettings(last'.args[1], NoFault)
       \/ fam = "codex" /\ SyncToCodex(last'.args[1], NoFault)
       \/ fam = "gemini" /\ SyncToGemini(last'.args[1], NoFault)
       \/ fam = "opencode" /\ SyncToOpenCode(last'.args[1], NoFault)

DirCreated(fam) ==
    SyncStep(fam) =>
        IF dir_exists(TargetDir[fam])
        THEN target_dirs' = target_dirs
        ELSE /\ last'.ret.ok
             /\ target_dirs' = target_dirs \cup {TargetDir[fam]}
             /\ \A i \in 1..Len(WrittenBy[fam]) :
                   WrittenBy[fam]'[i].exists /\ WrittenBy[fam]'[i].parses

C19_DirCreatedBySync ==
    [][\A fam \in {"codex", "gemini", "opencode"} : DirCreated(fam)]_vars

C19_DirCreated ==
    [][\A fam \in Families : DirCreated(fam)]_vars

\* sync_to_settings found no ~/.claude and failed in its write; nothing was created
C19_Witness ==
    /\ last.op = "sync_to_settings"
    /\ ~last.found.dir
    /\ last.ret = Err(<<"writing settings.json failed">>)
    /\ ".claude" \notin target_dirs
    /\ settings_file = NoFile

\* sync_to_codex found no ~/.codex, created it and wrote both files
C19_WitnessCreated ==
    /\ last.op = "sync_to_codex"
    /\ ~last.found.dir
    /\ last.ret.ok
    /\ ".codex" \in target_dirs
    /\ codex_auth_json.exists
    /\ codex_config_toml.exists

(***************************************************************************)
(* C20.  A credential store file that is there and does not parse reads    *)
(* as the empty default store: get_site returns None, and add_site         *)
(* succeeds and leaves a store holding the added site alone.               *)
(***************************************************************************)
GetSiteOp ==
    [claude |-> "claude.get_site", codex |-> "codex.get_site",
     gemini |-> "gemini.get_site"]

C20_UnparsableReadsEmpty ==
    [][/\ \A fam \in SingleSecretFamilies :
             StoreOf[fam] = Garbage =>
                /\ last'.op = GetSiteOp[fam] => last'.ret = Ok(None)
                /\ last'.op = AddSiteOp[fam] =>
                      /\ last'.ret.ok
                      /\ StoreReads(fam)'
                      /\ DOMAIN SitesOf(fam)' = {last'.args[1]}
       /\ StoreOf["opencode"] = Garbage =>
             /\ last'.op = "opencode.get_provider" => last'.ret = Ok(None)
             /\ last'.op = "opencode.add_provider" =>
                   /\ last'.ret.ok
                   /\ StoreReads("opencode")'
                   /\ DOMAIN ProvidersOf' = {last'.args[1]}
      ]_vars

\* add_site found claude.json unparsable, returned the parse error and left the file
C20_Witness ==
    /\ last.op = "claude.add_site"
    /\ last.args[1] = "acme"
    /\ ~last.ret.ok
    /\ last.ret.err = <<"parsing the config file failed">>
    /\ claude_config_file = Garbage

(***************************************************************************)
(* C20, as the code has it.  A credential store file that is there and     *)
(* does not parse makes the read fail: get_site and every store operation  *)
(* of the family return the family's parse error and leave the file as it  *)
(* is.  Only a missing store file reads as the empty default store:        *)
(* get_site returns None and add_site succeeds, leaving a store that holds *)
(* the added site alone.                                                   *)
(***************************************************************************)
ParseError ==
    [claude |-> <<"parsing the config file failed">>,
     codex |-> <<"parsing codex.json failed">>,
     gemini |-> <<"parsing gemini.json failed">>,
     opencode |-> <<"parsing opencode.json failed">>]
\* the operations of a family's store manager
ManagerOps(fam) ==
    IF fam = "opencode"
    THEN OnProviderOps \cup {"opencode.get_provider", "opencode.add_provider"}
    ELSE OnSiteOps(fam) \cup {GetSiteOp[fam], AddSiteOp[fam]}

C20_UnparsableIsError ==
    [][/\ \A fam \in Families :
             (StoreOf[fam] = Garbage /\ last'.op \in ManagerOps(fam)) =>
                /\ last'.ret = Err(ParseError[fam])
                /\ StoreOf[fam]' = Garbage
       /\ \A fam \in SingleSecretFamilies :
             StoreOf[fam] = NoFile =>
                /\ last'.op = GetSiteOp[fam] => last'.ret = Ok(None)
                /\ last'.op = AddSiteOp[fam] =>
                      /\ last'.ret.ok
                      /\ StoreReads(fam)'
                      /\ DOMAIN SitesOf(fam)' = {last'.args[1]}
       /\ StoreOf["opencode"] = NoFile =>
             /\ last'.op = "opencode.get_provider" => last'.ret = Ok(None)
             /\ last'.op = "opencode.add_provider" =>
                   /\ last'.ret.ok
                   /\ StoreReads("opencode")'
                   /\ DOMAIN ProvidersOf' = {last'.args[1]}
      ]_vars

(***************************************************************************)
(* C21.  sync_to_codex writes auth.json, then config.toml, as two separate *)
(* writes, and the first failing write ends the call with its error: when  *)
(* the auth.json write fails, neither file changes; when the config.toml   *)
(* write fails, auth.json already holds the new secret and is not          *)
(* restored, and config.toml is as it was; with no failure both files are  *)
(* the new ones.                                                           *)
(***************************************************************************)
AuthJsonOf(c) == FileOf(JObj([OPENAI_API_KEY |-> JStr(c.api_key)]))

C21_WriteFailureAborts ==
    [][\A c \in CodexActiveConfigs :
        /\ SyncToCodex(c, {"auth.json"}) =>
              /\ last'.ret = Err(<<"writing auth.json failed">>)
              /\ codex_auth_json' = codex_auth_json
              /\ codex_config_toml' = codex_config_toml
        /\ SyncToCodex(c, {"config.toml"}) =>
              /\ last'.ret = Err(<<"writing config.toml failed">>)
              /\ codex_auth_json' = AuthJsonOf(c)
              /\ codex_config_toml' = codex_config_toml
        /\ SyncToCodex(c, NoFault) =>
              /\ last'.ret.ok
              /\ codex_auth_json' = AuthJsonOf(c)
              /\ codex_config_toml' = FileOf(config_toml_lines(c))]_vars

\* the config.toml write failed after auth.json was replaced: auth.json holds
\* the new secret next to the config.toml of an earlier sync of another site
C21_Witness ==
    /\ last.op = "sync_to_codex"
    /\ last.ret = Err(<<"writing config.toml failed">>)
    /\ last.found.files[1].exists /\ last.found.files[1].parses
    /\ codex_auth_json = AuthJsonOf(last.args[1])
    /\ codex_auth_json # last.found.files[1]
    /\ codex_config_toml = last.found.files[2]
    /\ \E c \in CodexActiveConfigs :
          /\ c.site # last.args[1].site
          /\ codex_config_toml = FileOf(config_toml_lines(c))

(***************************************************************************)
(* The concurrent specification: two runs of `cc claude` (two processes)   *)
(* work on ~/.cc-cli/claude.json at the same time.  Every mutation is      *)
(* read_config, a change of the value read, write_config; there is no lock *)
(* and no check of the file at the write (claude_manager.rs 48-68), so the *)
(* read and the write of one call are two steps between which the other    *)
(* process may act.  The change is a function of the document read, so the *)
(* document to write and the result are computed at the read.              *)
(* in_flight[p] is the call of process p: pc is "read" between its two     *)
(* steps; `read` is the file it read, `pending` the file it writes,        *)
(* `found` the file on disk just before its write.                         *)
(***************************************************************************)
Procs == {"p1", "p2"}
TokenNames == {"primary", "backup"}
TokenOf == [primary |-> "sk-123", backup |-> "sk-456"]

RaceCalls ==
         {[op |-> "claude.add_site", args |-> <<"acme", UrlOf["acme"], None>>]}
    \cup {[op |-> "claude.add_token", args |-> <<"acme", k, TokenOf[k]>>] :
             k \in TokenNames}
    \cup {[op |-> "claude.remove_token", args |-> <<"acme", k>>] : k \in TokenNames}

\* the call run to its end on the document claude.json holds now
RunOnStore(c) ==
    CASE c.op = "claude.add_site" ->
            claude_add_site(c.args[1], c.args[2], c.args[3], NoFault)
      [] c.op = "claude.add_token" ->
            claude_add_token(c.args[1], c.args[2], c.args[3], NoFault)
      [] c.op = "claude.remove_token" ->
            claude_remove_token(c.args[1], c.args[2], NoFault)

NoCall ==
    [pc |-> "idle", op |-> "new", args |-> <<>>, read |-> None, pending |-> None,
     found |-> None, ret |-> OkUnit]

\* read_config and the change in memory: the first half of a mutation
ReadStore(p, c) ==
    /\ family = "claude"
    /\ in_flight[p].pc # "read"
    /\ LET r == RunOnStore(c) IN
         in_flight' = [in_flight EXCEPT ![p] =
                          [pc |-> "read", op |-> c.op, args |-> c.args,
                           read |-> Some(claude_config_file), pending |-> Some(r.file),
                           found |-> None, ret |-> r.ret]]
    /\ UNCHANGED <<family, now, last, target_dirs, global_config_file, claude_files,
                   codex_files, gemini_files, opencode_files>>

\* a write_config that runs the whole call again on the document on disk
WriteStore_rereading(p) ==
    /\ in_flight[p].pc = "read"
    /\ LET c == in_flight[p]
           r == RunOnStore(c) IN
         /\ claude_config_file' = r.file
         /\ Call(c.op, c.args, r.ret)
         /\ in_flight' = [in_flight EXCEPT ![p].pc = "done",
                                           ![p].found = Some(claude_config_file),
                                           ![p].ret = r.ret]
    /\ UNCHANGED <<family, now, target_dirs, global_config_file, settings_file,
                   codex_files, gemini_files, opencode_files>>

\* write_config, the second half: the whole document replaces the file when
\* the call got as far as its write; a call that failed before returns
WriteStore(p) ==
    /\ in_flight[p].pc = "read"
    /\ LET c == in_flight[p] IN
         /\ claude_config_file' = IF c.ret.ok THEN unwrap(c.pending) ELSE claude_config_file
         /\ Call(c.op, c.args, c.ret)
         /\ in_flight' = [in_flight EXCEPT ![p].pc = "done",
                                           ![p].found = Some(claude_config_file)]
    /\ UNCHANGED <<family, now, target_dirs, global_config_file, settings_file,
                   codex_files, gemini_files, opencode_files>>

InitRace ==
    /\ family = "claude"
    /\ now = 0
    /\ in_flight = [p \in Procs |-> NoCall]
    /\ global_config_file = NoFile
    /\ claude_config_file = NoFile
    /\ settings_file = NoFile
    /\ codex_config_file = NoFile
    /\ codex_auth_json = NoFile
    /\ codex_config_toml = NoFile
    /\ gemini_config_file = NoFile
    /\ gemini_env_file = NoFile
    /\ gemini_settings_file = NoFile
    /\ opencode_config_file = NoFile
    /\ opencode_json = NoFile
    /\ target_dirs = {".claude"}
    /\ last = [op |-> "new", args |-> <<>>, ret |-> OkUnit]

NextRace ==
    \/ \E p \in Procs, c \in RaceCalls : ReadStore(p, c)
    \/ \E p \in Procs : WriteStore(p)

SpecRace == InitRace /\ [][NextRace]_vars

(***************************************************************************)
(* C22.  Concurrent mutations of one credential store are not guarded: a   *)
(* successful call leaves the document it computed from what it read,      *)
(* whatever the file held at its write.  For add_token and remove_token    *)
(* the tokens of the site after the write are those the call read with     *)
(* the one token added or removed, and for add_site the sites are those it *)
(* read with the new one; a change another process wrote in between is     *)
(* gone, although both calls returned Ok.                                  *)
(***************************************************************************)
DocOf(file) == IF file.exists THEN file.doc[1] ELSE ClaudeConfig_new

C22_UnguardedWrite ==
    [][\A p \in Procs :
        (WriteStore(p) /\ in_flight[p].ret.ok) =>
            LET c == in_flight[p]
                was == DocOf(unwrap(c.read))
                is == DocOf(claude_config_file')
            IN /\ claude_config_file'.exists /\ claude_config_file'.parses
               /\ last'.ret.ok
               /\ c.op = "claude.add_site" =>
                     /\ DOMAIN is.sites = DOMAIN was.sites \cup {c.args[1]}
                     /\ \A s \in DOMAIN was.sites : is.sites[s] = was.sites[s]
               /\ c.op = "claude.add_token" =>
                     /\ DOMAIN is.sites = DOMAIN was.sites
                     /\ is.sites[c.args[1]].tokens =
                           insert(was.sites[c.args[1]].tokens, c.args[2], c.args[3])
               /\ c.op = "claude.remove_token" =>
                     /\ DOMAIN is.sites = DOMAIN was.sites
                     /\ is.sites[c.args[1]].tokens =
                           remove(was.sites[c.args[1]].tokens, c.args[2])]_vars

\* both processes added a token to acme under different names and both got
\* Ok; p1 wrote between the read and the write of p2, so p2 found "primary"
\* on disk and its write removed it
C22_Witness ==
    LET a == in_flight["p1"]
        b == in_flight["p2"]
    IN /\ a.pc = "done" /\ a.op = "claude.add_token" /\ a.ret.ok
       /\ b.pc = "done" /\ b.op = "claude.add_token" /\ b.ret.ok
       /\ a.args[1] = b.args[1]
       /\ a.args[2] = "primary" /\ b.args[2] = "backup"
       /\ last.op = "claude.add_token" /\ last.args = b.args
       /\ contains_key(DocOf(unwrap(b.found)).sites["acme"].tokens, "primary")
       /\ ~contains_key(DocOf(unwrap(b.read)).sites["acme"].tokens, "primary")
       /\ DOMAIN DocOf(claude_config_file).sites["acme"].tokens = {"backup"}

(***************************************************************************)
(* The merge specification: deep_merge applied to JSON values of every     *)
(* shape up to two levels of objects.  last.ret is the target (a `&mut`    *)
(* value the caller keeps), each step merges one more source into it.      *)
(***************************************************************************)
MergeKeys == {"a", "b"}
MergeScalars == {JNum("1"), JArr("[1, 2]")}
ObjectsOver(values) ==
    {JObj(o) : o \in UNION {[keys -> values] : keys \in SUBSET MergeKeys}}
MergeValues == MergeScalars \cup ObjectsOver(MergeScalars \cup ObjectsOver(MergeScalars))

DeepMerge(source) ==
    /\ Call("deep_merge", <<last.ret, source>>, deep_merge(last.ret, source))
    /\ UNCHANGED <<family, now, in_flight, target_dirs, global_config_file, claude_files,
                   codex_files, gemini_files, opencode_files>>

InitMerge ==
    /\ family = "claude"
    /\ now = 0
    /\ in_flight = <<>>
    /\ global_config_file = NoFile
    /\ claude_config_file = NoFile
    /\ settings_file = NoFile
    /\ codex_config_file = NoFile
    /\ codex_auth_json = NoFile
    /\ codex_config_toml = NoFile
    /\ gemini_config_file = NoFile
    /\ gemini_env_file = NoFile
    /\ gemini_settings_file = NoFile
    /\ opencode_config_file = NoFile
    /\ opencode_json = NoFile
    /\ target_dirs = {".claude"}
    /\ \E target \in MergeValues : last = [op |-> "new", args |-> <<>>, ret |-> target]

NextMerge == \E source \in MergeValues : DeepMerge(source)

SpecMerge == InitMerge /\ [][NextMerge]_vars

(***************************************************************************)
(* C23.  deep_merge(target, source): when both are objects, the result is  *)
(* an object with the keys of both; a key of the target that the source    *)
(* does not have keeps its value, a key of the source that the target does *)
(* not have comes in with the source's value, and for a key of both the    *)
(* result is the merge of the two values when both are objects and the     *)
(* source's value otherwise.  When the target or the source is not an      *)
(* object the target is unchanged.                                         *)
(***************************************************************************)
RECURSIVE IsMergeOf(_, _, _)
IsMergeOf(result, target, source) ==
    IF ~is_object(target) \/ ~is_object(source) THEN result = target
    ELSE /\ is_object(result)
         /\ DOMAIN result.o = DOMAIN target.o \cup DOMAIN source.o
         /\ \A key \in DOMAIN target.o \ DOMAIN source.o : result.o[key] = target.o[key]
         /\ \A key \in DOMAIN source.o \ DOMAIN target.o : result.o[key] = source.o[key]
         /\ \A key \in DOMAIN target.o \cap DOMAIN source.o :
               IF is_object(target.o[key]) /\ is_object(source.o[key])
               THEN IsMergeOf(result.o[key], target.o[key], source.o[key])
               ELSE result.o[key] = source.o[key]

C23_DeepMerge ==
    last.op = "deep_merge" => IsMergeOf(last.ret, last.args[1], last.args[2])

\* the case of test_deep_merge: a nested object of the target met a nested
\* object of the source; the result keeps the target's keys the source does
\* not have, at both levels, and takes the source's value for the shared key
C23_Witness ==
    /\ last.op = "deep_merge"
    /\ last.args[1] = JObj([a |-> JNum("1"),
                            b |-> JObj([a |-> JNum("1"), b |-> JArr("[1, 2]")])])
    /\ last.args[2] = JObj([b |-> JObj([a |-> JArr("[1, 2]")])])
    /\ last.ret = JObj([a |-> JNum("1"),
                        b |-> JObj([a |-> JArr("[1, 2]"), b |-> JArr("[1, 2]")])])

(***************************************************************************)
(* C24.  After a successful sync_to_settings the owned keys in env are     *)
(* exactly those of the active mode, with their values:                    *)
(* ANTHROPIC_AUTH_TOKEN, the active token, always; in standard mode        *)
(* ANTHROPIC_BASE_URL iff base_url is set, and no Vertex key; in Vertex    *)
(* mode CLAUDE_CODE_USE_VERTEX = "1",                                      *)
(* CLAUDE_CODE_DISABLE_NONESSENTIAL_TRAFFIC = "1",                         *)
(* ANTHROPIC_VERTEX_PROJECT_ID iff project_id is set,                      *)
(* ANTHROPIC_VERTEX_BASE_URL iff the Vertex base_url is set,               *)
(* CLAUDE_CODE_SKIP_VERTEX_AUTH = "1" iff skip_auth, and no                *)
(* ANTHROPIC_BASE_URL.  C24_ExactModeKeys is the statement for every       *)
(* settings file, C24_ExactModeKeysInObject the one for the files whose    *)
(* env is absent or an object.                                             *)
(***************************************************************************)
Entry(present, key, value) == IF present THEN {<<key, JStr(value)>>} ELSE {}
OptEntry(key, field) ==
    IF is_some(field) THEN {<<key, JStr(unwrap(field))>>} ELSE {}

\* the owned env keys of the mode of c, as pairs <<key, value>>
ModeEntries(c) ==
    {<<"ANTHROPIC_AUTH_TOKEN", JStr(c.token)>>}
    \cup IF c.vertex.enabled
         THEN      {<<"CLAUDE_CODE_USE_VERTEX", JStr("1")>>,
                    <<"CLAUDE_CODE_DISABLE_NONESSENTIAL_TRAFFIC", JStr("1")>>}
              \cup OptEntry("ANTHROPIC_VERTEX_PROJECT_ID", c.vertex.project_id)
              \cup OptEntry("ANTHROPIC_VERTEX_BASE_URL", c.vertex.base_url)
              \cup Entry(c.vertex.skip_auth, "CLAUDE_CODE_SKIP_VERTEX_AUTH", "1")
         ELSE OptEntry("ANTHROPIC_BASE_URL", c.base_url)

OwnedEntries(file) ==
    {<<k, EnvOf(file)[k]>> : k \in DOMAIN EnvOf(file) \cap OwnedEnvKeys}

\* the env the call found is an object, or there was none
EnvIsObject(file) ==
    contains_key(TopOf(file), "env") => is_object(TopOf(file)["env"])

\* the step is a successful sync_to_settings, and it left the keys of its mode
ExactModeKeys ==
    (last'.op = "sync_to_settings" /\ last'.ret.ok
        /\ SyncToSettings(last'.args[1], NoFault)) =>
            OwnedEntries(settings_file)' = ModeEntries(last'.args[1])

C24_ExactModeKeys == [][ExactModeKeys]_vars

C24_ExactModeKeysInObject == [][EnvIsObject(settings_file) => ExactModeKeys]_vars

\* sync_to_settings found "env": "PATH=/bin", returned Ok, and the file it
\* left has the token nowhere
C24_Witness ==
    /\ last.op = "sync_to_settings"
    /\ last.ret.ok
    /\ last.found.files[1] = TextEnvSettings
    /\ settings_file = last.wrote[1]
    /\ settings_file.exists /\ settings_file.parses
    /\ TopOf(settings_file)["env"] = JStr("PATH=/bin")
    /\ "ANTHROPIC_AUTH_TOKEN" \notin KeysOf(settings_file)

\* a Vertex sync over a file this synchronizer's standard mode had written
C24_WitnessInObject ==
    /\ last.op = "sync_to_settings"
    /\ last.ret.ok
    /\ settings_file = last.wrote[1]
    /\ last.args[1].vertex.enabled
    /\ contains_key(EnvOf(last.found.files[1]), "ANTHROPIC_BASE_URL")
    /\ DOMAIN EnvOf(settings_file) \cap OwnedEnvKeys =
          {"ANTHROPIC_AUTH_TOKEN", "CLAUDE_CODE_USE_VERTEX",
           "CLAUDE_CODE_DISABLE_NONESSENTIAL_TRAFFIC"}

(***************************************************************************)
(* The generation specification: a session that has resolved an active     *)
(* Codex configuration, in which every optional setting is, independently, *)
(* set or not, and calls sync_to_codex with it (once, and again over the   *)
(* files it wrote).  last.args[1] is the configuration from the start.     *)
(***************************************************************************)
OptionalText(v) == {None, Some(v)}
AllCodexActiveConfigs ==
    {[site |-> s, site_url |-> UrlOf[s], site_description |-> None,
      api_key_name |-> "primary", api_key |-> "sk-123",
      base_url |-> b, model |-> m, model_reasoning_effort |-> e,
      model_provider |-> p, network_access |-> n,
      disable_response_storage |-> d, wire_api |-> w] :
        s \in Sites, b \in OptionalText("https://proxy.test"), m \in OptionalText("gpt-5"),
        e \in OptionalText("high"), p \in OptionalText("custom"),
        n \in OptionalText("enabled"), d \in {None, Some(TRUE), Some(FALSE)},
        w \in OptionalText("responses")}

InitToml ==
    /\ family = "codex"
    /\ now = 0
    /\ in_flight = <<>>
    /\ global_config_file = NoFile
    /\ claude_config_file = NoFile
    /\ settings_file = NoFile
    /\ codex_config_file = NoFile
    /\ codex_auth_json = NoFile
    /\ codex_config_toml = NoFile
    /\ gemini_config_file = NoFile
    /\ gemini_env_file = NoFile
    /\ gemini_settings_file = NoFile
    /\ opencode_config_file = NoFile
    /\ opencode_json = NoFile
    /\ target_dirs = {".claude"}
    /\ \E c \in AllCodexActiveConfigs :
          last = [op |-> "resolved", args |-> <<c>>, ret |-> OkUnit,
                  found |-> [dir |-> FALSE, files |-> <<>>], wrote |-> <<>>]

NextToml == SyncToCodex(last.args[1], NoFault)

SpecToml == InitToml /\ [][NextToml]_vars

(***************************************************************************)
(* C25.  config.toml as sync_to_config_toml generates it.  The provider    *)
(* identifier is model_provider when set and the site name otherwise; the  *)
(* first line is model_provider = "<id>"; the top-level lines that follow  *)
(* are, in this order, model, model_reasoning_effort, network_access and   *)
(* disable_response_storage, each there iff its field is set; then one     *)
(* blank line, the only one; then the section [model_providers.<id>] with  *)
(* name = "<id>", base_url iff set, wire_api iff set, and                  *)
(* requires_openai_auth = true; and there is no other section.             *)
(***************************************************************************)
ProviderId(c) == IF c.model_provider = None THEN c.site ELSE c.model_provider[1]

\* the lines that the set fields among `keys` (in this order) produce
RECURSIVE LinesFor(_, _)
LinesFor(keys, c) ==
    IF keys = <<>> THEN <<>>
    ELSE LET k == Head(keys)
             f == c[k]
             text == IF k = "disable_response_storage"
                     THEN <<k, " = ", IF f[1] THEN "true" ELSE "false">>
                     ELSE <<k, " = \"", f[1], "\"">>
         IN (IF f = None THEN <<>> ELSE <<text>>) \o LinesFor(Tail(keys), c)

TopLevelKeys == <<"model", "model_reasoning_effort", "network_access", "disable_response_storage">>
SectionKeys == <<"base_url", "wire_api">>

IsConfigToml(lines, c) ==
    \E blank \in 1..Len(lines) :
        /\ \A i \in 1..Len(lines) : (lines[i] = <<>>) <=> (i = blank)
        /\ lines[1] = <<"model_provider", " = \"", ProviderId(c), "\"">>
        /\ SubSeq(lines, 2, blank - 1) = LinesFor(TopLevelKeys, c)
        /\ Len(lines) >= blank + 3
        /\ lines[blank + 1] = <<"[model_providers.", ProviderId(c), "]">>
        /\ lines[blank + 2] = <<"name", " = \"", ProviderId(c), "\"">>
        /\ SubSeq(lines, blank + 3, Len(lines) - 1) = LinesFor(SectionKeys, c)
        /\ lines[Len(lines)] = <<"requires_openai_auth = true">>
        /\ \A i \in 1..Len(lines) :
              (lines[i] # <<>> /\ lines[i][1] = "[model_providers.") => i = blank + 1

C25_ConfigToml ==
    (last.op = "sync_to_codex" /\ last.ret.ok) =>
        /\ last.wrote[2].exists /\ last.wrote[2].parses
        /\ IsConfigToml(last.wrote[2].doc[1], last.args[1])

\* a configuration without model_provider and with some fields set and others
\* not: the section is keyed by the site name, and only the set fields have lines
C25_Witness ==
    /\ last.op = "sync_to_codex"
    /\ last.ret.ok
    /\ last.args[1].site = "beta"
    /\ last.args[1].model_provider = None
    /\ last.args[1].model = None
    /\ last.args[1].wire_api = None
    /\ codex_config_toml = last.wrote[2]
    /\ codex_config_toml.doc[1] =
          << <<"model_provider", " = \"", "beta", "\"">>,
             <<"network_access", " = \"", "enabled", "\"">>,
             <<"disable_response_storage", " = ", "false">>,
             <<>>,
             <<"[model_providers.", "beta", "]">>,
             <<"name", " = \"", "beta", "\"">>,
             <<"base_url", " = \"", "https://proxy.test", "\"">>,
             <<"requires_openai_auth = true">> >>

(***************************************************************************)
(* C26.  ~/.gemini/.env as sync_to_env generates it: exactly one           *)
(* GEMINI_API_KEY line, carrying the active secret; a                      *)
(* GOOGLE_GEMINI_BASE_URL line iff base_url is present and a GEMINI_MODEL  *)
(* line iff model is present, each once and with the field's value; no     *)
(* other line, so an absent field has no line, and no line with an empty   *)
(* value.                                                                  *)
(***************************************************************************)
LinesOf(lines, key) == {i \in 1..Len(lines) : lines[i][1] = key}

OptionalLine(lines, key, field) ==
    IF field = None THEN LinesOf(lines, key) = {}
    ELSE /\ Cardinality(LinesOf(lines, key)) = 1
         /\ \A i \in LinesOf(lines, key) : lines[i] = <<key, "=", field[1]>>

IsGeminiEnv(lines, c) ==
    /\ Cardinality(LinesOf(lines, "GEMINI_API_KEY")) = 1
    /\ \A i \in LinesOf(lines, "GEMINI_API_KEY") : lines[i] = <<"GEMINI_API_KEY", "=", c.api_key>>
    /\ OptionalLine(lines, "GOOGLE_GEMINI_BASE_URL", c.base_url)
    /\ OptionalLine(lines, "GEMINI_MODEL", c.model)
    /\ \A i \in 1..Len(lines) :
          /\ Len(lines[i]) = 3
          /\ lines[i][1] \in {"GEMINI_API_KEY", "GOOGLE_GEMINI_BASE_URL", "GEMINI_MODEL"}
          /\ lines[i][2] = "="
          /\ lines[i][3] # ""

C26_GeminiEnv ==
    (last.op = "sync_to_gemini" /\ last.ret.ok) =>
        /\ last.wrote[1].exists /\ last.wrote[1].parses
        /\ IsGeminiEnv(last.wrote[1].doc[1], last.args[1])

\* a sync without base_url and without model over a .env that held all three
\* lines: the file is the secret line alone
C26_Witness ==
    /\ last.op = "sync_to_gemini"
    /\ last.ret.ok
    /\ last.args[1].base_url = None
    /\ last.args[1].model = None
    /\ last.found.files[1].exists /\ last.found.files[1].parses
    /\ Len(last.found.files[1].doc[1]) = 3
    /\ gemini_env_file = last.wrote[1]
    /\ gemini_env_file.doc[1] = << <<"GEMINI_API_KEY", "=", last.args[1].api_key>> >>

(***************************************************************************)
(* The reference-document specification: a session reads and writes        *)
(* ~/.cc-cli/config.json through ConfigManager::read_global_config and     *)
(* write_global_config, asks for the active configuration and looks sites  *)
(* up, while no credential store document has been written yet.            *)
(***************************************************************************)
Versions == {"3.0.0", "2.0.0"}
OptionalOf(S) == {None} \cup {Some(x) : x \in S}
GlobalConfigs ==
    {[version |-> v,
      active |-> [claude |-> a, codex |-> b, gemini |-> c, opencode |-> d],
      metadata |-> [created_at |-> 0, updated_at |-> 0]] :
        v \in Versions,
        a \in OptionalOf({ClaudeActiveReference(s, "primary") : s \in Sites}),
        b \in OptionalOf({CodexActiveReference(s, "primary") : s \in Sites}),
        c \in OptionalOf({GeminiActiveReference(s, "backup") : s \in Sites}),
        d \in OptionalOf({OpenCodeActiveReference(OpenCodeModelReference("openai", "gpt"),
                                                  OpenCodeModelReference(p, "mini")) :
                             p \in Providers})}

WriteGlobalConfig(config) ==
    LET w == write_global_config(global_config_file, config, NoFault) IN
    /\ global_config_file' = w.file
    /\ Call("write_global_config", <<config>>, w.ret)
    /\ UNCHANGED <<family, now, in_flight, target_dirs, claude_files, codex_files,
                   gemini_files, opencode_files>>

ReadGlobalConfig ==
    /\ Call("read_global_config", <<>>, read_global_config(global_config_file))
    /\ UNCHANGED <<family, now, in_flight, target_dirs, global_config_file, claude_files,
                   codex_files, gemini_files, opencode_files>>

\* get_site(name) of the session's family (get_provider for OpenCode)
GetSite(name) ==
    \/ ClaudeStoreCall("claude.get_site", <<name>>,
                       Unchanged(claude_config_file, claude_get_site(name)))
    \/ CodexStoreCall("codex.get_site", <<name>>,
                      Unchanged(codex_config_file, codex_get_site(name)))
    \/ GeminiStoreCall("gemini.get_site", <<name>>,
                       Unchanged(gemini_config_file, gemini_get_site(name)))
    \/ OpenCodeStoreCall("opencode.get_provider", <<name>>,
                         Unchanged(opencode_config_file, opencode_get_provider(name)))

NextGlobal ==
    \/ \E config \in GlobalConfigs : WriteGlobalConfig(config)
    \/ ReadGlobalConfig
    \/ GetActiveClaude
    \/ GetActiveCodex
    \/ GetActiveGemini
    \/ GetActiveOpenCode
    \/ \E name \in Sites \cup Providers : GetSite(name)

SpecGlobal == Init /\ [][NextGlobal]_vars

(***************************************************************************)
(* C27.  The initial state.  With no store document, get_site (and         *)
(* get_provider) returns None for every name; with no config.json,         *)
(* read_global_config returns a configuration of version 3.0.0 without any *)
(* active reference and get_active_<family> returns None, in each of the   *)
(* four families; and none of these reads creates or changes a document.   *)
(***************************************************************************)
AllDocuments ==
    <<global_config_file, claude_config_file, codex_config_file, gemini_config_file,
      opencode_config_file, ExternalFiles, target_dirs>>

ReadOps ==
    {"read_global_config", "claude.get_site", "codex.get_site", "gemini.get_site",
     "opencode.get_provider"} \cup {GetActiveOp[fam] : fam \in Families}

C27_InitialState ==
    [][/\ last'.op \in ReadOps => AllDocuments' = AllDocuments
       /\ \A fam \in Families :
             /\ (family = fam /\ ~StoreOf[fam].exists
                   /\ last'.op \in {"claude.get_site", "codex.get_site", "gemini.get_site",
                                    "opencode.get_provider"}) =>
                      last'.ret = Ok(None)
             /\ (family = fam /\ ~global_config_file.exists
                   /\ last'.op = GetActiveOp[fam]) =>
                      last'.ret = Ok(None)
       /\ (~global_config_file.exists /\ last'.op = "read_global_config") =>
             /\ last'.ret.ok
             /\ last'.ret.val[1].version = "3.0.0"
             /\ \A fam \in Families : last'.ret.val[1].active[fam] = None]_vars

\* get_active of the session's family on the fresh state: None, and there is
\* still no document at all
C27_Witness ==
    /\ last.op = GetActiveOp[family]
    /\ last.ret = Ok(None)
    /\ family = "opencode"
    /\ ~global_config_file.exists
    /\ \A fam \in Families : ~StoreOf[fam].exists
    /\ \A i \in 1..Len(ExternalFiles) : ~ExternalFiles[i].exists

(***************************************************************************)
(* C29.  write_global_config(c) followed by read_global_config returns a   *)
(* configuration with the version of c and, for each of the four families, *)
(* the active reference of c or, as in c, none.                            *)
(***************************************************************************)
C29_GlobalRoundTrip ==
    [][(last.op = "write_global_config" /\ last.ret.ok
          /\ last'.op = "read_global_config") =>
              /\ last'.ret.ok
              /\ last'.ret.val[1].version = last.args[1].version
              /\ \A fam \in Families :
                    last'.ret.val[1].active[fam] = last.args[1].active[fam]]_vars

\* read back: a version other than the default one, references for Claude and
\* OpenCode, none for Codex and Gemini
C29_Witness ==
    /\ last.op = "read_global_config"
    /\ last.ret.ok
    /\ global_config_file.exists
    /\ last.ret.val[1].version = "2.0.0"
    /\ last.ret.val[1].active.claude = Some(ClaudeActiveReference("beta", "primary"))
    /\ last.ret.val[1].active.codex = None
    /\ last.ret.val[1].active.gemini = None
    /\ is_some(last.ret.val[1].active.opencode)
    /\ DOMAIN global_config_file.doc[1].active = {"claude", "opencode"}

(***************************************************************************)
(* The site specification: one ClaudeSite value in memory (last.site) and  *)
(* the calls of test_claude_site_operations on it, in any order and with   *)
(* any of the names and values.                                            *)
(***************************************************************************)
SiteTokenNames == {"main", "primary", "backup"}

\* ret is the Option a call returns, <<>> for a call that returns ()
SiteCall(op, args, ret, site) ==
    /\ last' = [op |-> op, args |-> args, ret |-> ret, site |-> site]
    /\ UNCHANGED <<family, now, in_flight, target_dirs, global_config_file, claude_files,
                   codex_files, gemini_files, opencode_files>>

SiteAddToken(token_name, token) ==
    SiteCall("add_token", <<token_name, token>>, <<>>,
             ClaudeSite_add_token(last.site, token_name, token))

SiteGetToken(token_name) ==
    SiteCall("get_token", <<token_name>>, ClaudeSite_get_token(last.site, token_name),
             last.site)

SiteRemoveToken(token_name) ==
    LET rm == ClaudeSite_remove_token(last.site, token_name)
    IN SiteCall("remove_token", <<token_name>>, rm.result, rm.site)

InitSite ==
    /\ family = "claude"
    /\ now = 0
    /\ in_flight = <<>>
    /\ global_config_file = NoFile
    /\ claude_config_file = NoFile
    /\ settings_file = NoFile
    /\ codex_config_file = NoFile
    /\ codex_auth_json = NoFile
    /\ codex_config_toml = NoFile
    /\ gemini_config_file = NoFile
    /\ gemini_env_file = NoFile
    /\ gemini_settings_file = NoFile
    /\ opencode_config_file = NoFile
    /\ opencode_json = NoFile
    /\ target_dirs = {".claude"}
    /\ last = [op |-> "new", args |-> <<"https://api.example.com", Some("Test Site")>>,
               ret |-> <<>>,
               site |-> ClaudeSite_new("https://api.example.com", Some("Test Site"))]

NextSite ==
    \/ \E k \in SiteTokenNames, v \in SecretValues : SiteAddToken(k, v)
    \/ \E k \in SiteTokenNames : SiteGetToken(k)
    \/ \E k \in SiteTokenNames : SiteRemoveToken(k)

SpecSite == InitSite /\ [][NextSite]_vars

(***************************************************************************)
(* C28.  The token map of a site: get_token(k) right after add_token(k, v) *)
(* returns v; remove_token(k) right after add_token(k, v) returns v, and   *)
(* get_token(k) right after a remove_token(k) returns None; add_token and  *)
(* remove_token leave the token of every other name as it was, and         *)
(* get_token changes nothing.                                              *)
(***************************************************************************)
SameName == last'.args[1] = last.args[1]

C28_TokenRoundTrip ==
    [][/\ (last.op = "add_token" /\ last'.op = "get_token" /\ SameName) =>
             last'.ret = Some(last.args[2])
       /\ (last.op = "add_token" /\ last'.op = "remove_token" /\ SameName) =>
             last'.ret = Some(last.args[2])
       /\ (last.op = "remove_token" /\ last'.op = "get_token" /\ SameName) =>
             last'.ret = None
       /\ last'.op \in {"add_token", "remove_token"} =>
             \A other \in SiteTokenNames \ {last'.args[1]} :
                 ClaudeSite_get_token(last'.site, other) =
                     ClaudeSite_get_token(last.site, other)
       /\ last'.op = "get_token" => last'.site = last.site]_vars

\* add_token("main", v), remove_token("main") gave v back, get_token("main") is
\* None, and the tokens under the two other names are still there
C28_Witness ==
    /\ last.op = "get_token"
    /\ last.args = <<"main">>
    /\ last.ret = None
    /\ DOMAIN last.site.tokens = {"primary", "backup"}
    /\ last.site.tokens["primary"] # last.site.tokens["backup"]

(***************************************************************************)
(* The clock specification: the store sessions with time passing between   *)
(* the calls.  chrono::Utc::now() is the counter `now`; Tick is a moment   *)
(* passing.                                                                *)
(***************************************************************************)
MaxNow == 2

Tick ==
    /\ now < MaxNow
    /\ now' = now + 1
    /\ UNCHANGED <<family, in_flight, target_dirs, last, global_config_file, claude_files,
                   codex_files, gemini_files, opencode_files>>

\* the mutating calls of one session, on acme next to beta (openai next to
\* local), each with one set of arguments
ClockedSession ==
    \/ \E s \in Sites :
          ClaudeStoreCall("claude.add_site", <<s, UrlOf[s], None>>,
                          claude_add_site(s, UrlOf[s], None, NoFault))
    \/ ClaudeStoreCall("claude.update_site_metadata", <<"acme", None, Some("note")>>,
                       claude_update_site_metadata("acme", None, Some("note"), NoFault))
    \/ ClaudeStoreCall("claude.update_site_config", <<"acme", None, Some("opus"), None>>,
                       claude_update_site_config("acme", None, Some("opus"), None, NoFault))
    \/ ClaudeStoreCall("claude.add_token", <<"acme", "primary", "sk-123">>,
                       claude_add_token("acme", "primary", "sk-123", NoFault))
    \/ ClaudeStoreCall("claude.update_token", <<"acme", "primary", "sk-456">>,
                       claude_update_token("acme", "primary", "sk-456", NoFault))
    \/ ClaudeStoreCall("claude.remove_token", <<"acme", "primary">>,
                       claude_remove_token("acme", "primary", NoFault))
    \/ \E s \in Sites :
          CodexStoreCall("codex.add_site", <<s, UrlOf[s], None>>,
                         codex_add_site(s, UrlOf[s], None, NoFault))
    \/ CodexStoreCall("codex.update_site_metadata", <<"acme", None, Some("note")>>,
                      codex_update_site_metadata("acme", None, Some("note"), NoFault))
    \/ \E p \in {CodexPatch(Some("https://proxy.test"))} :
          CodexStoreCall("codex.update_site_config", <<"acme", p>>,
                         codex_update_site_config("acme", p, NoFault))
    \/ CodexStoreCall("codex.add_api_key", <<"acme", "primary", "sk-123">>,
                      codex_add_api_key("acme", "primary", "sk-123", NoFault))
    \/ CodexStoreCall("codex.update_api_key", <<"acme", "primary", "sk-456">>,
                      codex_update_api_key("acme", "primary", "sk-456", NoFault))
    \/ CodexStoreCall("codex.delete_api_key", <<"acme", "primary">>,
                      codex_delete_api_key("acme", "primary", NoFault))
    \/ \E s \in Sites :
          GeminiStoreCall("gemini.add_site", <<s, UrlOf[s], None>>,
                          gemini_add_site(s, UrlOf[s], None, NoFault))
    \/ GeminiStoreCall("gemini.update_site_metadata", <<"acme", None, Some("note")>>,
                       gemini_update_site_metadata("acme", None, Some("note"), NoFault))
    \/ GeminiStoreCall("gemini.update_site_config", <<"acme", None, Some("gemini-pro")>>,
                       gemini_update_site_config("acme", None, Some("gemini-pro"), NoFault))
    \/ GeminiStoreCall("gemini.add_api_key", <<"acme", "primary", "sk-123">>,
                       gemini_add_api_key("acme", "primary", "sk-123", NoFault))
    \/ GeminiStoreCall("gemini.update_api_key", <<"acme", "primary", "sk-456">>,
                       gemini_update_api_key("acme", "primary", "sk-456", NoFault))
    \/ GeminiStoreCall("gemini.delete_api_key", <<"acme", "primary">>,
                       gemini_delete_api_key("acme", "primary", NoFault))
    \/ \E n \in Providers :
          OpenCodeStoreCall("opencode.add_provider",
              <<n, UrlOf["acme"], ApiKeyOf[n], None, None>>,
              opencode_add_provider(n, UrlOf["acme"], ApiKeyOf[n], None, None, NoFault))
    \/ OpenCodeStoreCall("opencode.update_provider_metadata",
            <<"openai", None, None, None, Some("note")>>,
            opencode_update_provider_metadata("openai", None, None, None, Some("note"),
                                              NoFault))
    \/ OpenCodeStoreCall("opencode.update_api_key", <<"openai", "key-rotated">>,
                         opencode_update_api_key("openai", "key-rotated", NoFault))
    \/ \E m \in ModelIds :
          OpenCodeStoreCall("opencode.add_model", <<"openai", m, OpenCodeModelInfo(m, None)>>,
                            opencode_add_model("openai", m, OpenCodeModelInfo(m, None),
                                               NoFault))
    \/ \E m \in ModelIds :
          OpenCodeStoreCall("opencode.delete_model", <<"openai", m>>,
                            opencode_delete_model("openai", m, NoFault))

NextClock ==
    \/ Tick
    \/ ClockedSession

SpecClock == Init /\ [][NextClock]_vars

(***************************************************************************)
(* C30.  A successful update_site_metadata, update_site_config, secret     *)
(* add, secret update or secret remove sets the updated_at of its site to  *)
(* the time of the call, leaves the site's created_at as it was, and       *)
(* leaves both timestamps of every other site as they were.                *)
(* C30_TimestampsOfSites is the statement for the Claude, Codex and Gemini *)
(* stores, C30_Timestamps the one that also covers the providers of the    *)
(* OpenCode store.                                                         *)
(***************************************************************************)
MutatingOps(fam) == OnSiteOps(fam) \ {RemoveSiteOp[fam]}
MutatingProviderOps == OnProviderOps \ {"opencode.delete_provider"}

Timestamps(metadata) == <<metadata.created_at, metadata.updated_at>>

SiteBumped(fam, s) ==
    /\ s \in DOMAIN SitesOf(fam)'
    /\ SitesOf(fam)'[s].metadata.updated_at = now
    /\ SitesOf(fam)'[s].metadata.created_at = SitesOf(fam)[s].metadata.created_at
    /\ \A t \in DOMAIN SitesOf(fam) \ {s} :
          /\ t \in DOMAIN SitesOf(fam)'
          /\ Timestamps(SitesOf(fam)'[t].metadata) = Timestamps(SitesOf(fam)[t].metadata)

ProviderBumped(n) ==
    /\ n \in DOMAIN ProvidersOf'
    /\ ProviderOf(n)'.metadata.updated_at = now
    /\ ProviderOf(n)'.metadata.created_at = ProviderOf(n).metadata.created_at
    /\ \A t \in DOMAIN ProvidersOf \ {n} :
          /\ t \in DOMAIN ProvidersOf'
          /\ Timestamps(ProviderOf(t)'.metadata) = Timestamps(ProviderOf(t).metadata)

SitesBump ==
    \A fam \in SingleSecretFamilies, s \in Sites :
        (family = fam /\ now' = now /\ last'.op \in MutatingOps(fam) /\ last'.ret.ok
            /\ last'.args[1] = s) => SiteBumped(fam, s)

ProvidersBump ==
    \A n \in Providers :
        (family = "opencode" /\ now' = now /\ last'.op \in MutatingProviderOps
            /\ last'.ret.ok /\ last'.args[1] = n) => ProviderBumped(n)

C30_TimestampsOfSites == [][SitesBump]_vars

C30_Timestamps == [][SitesBump /\ ProvidersBump]_vars

\* update_provider_metadata on openai returned Ok at time 1, and the stored
\* provider has no time in its updated_at
C30_Witness ==
    /\ family = "opencode"
    /\ last.op = "opencode.update_provider_metadata"
    /\ last.ret.ok
    /\ now = 1
    /\ "openai" \in DOMAIN ProvidersOf
    /\ ProviderOf("openai").metadata.updated_at = EmptyTimestamp

\* acme was created at 0 and its token updated at 2, next to beta, created at 1
\* and not touched since
C30_WitnessOfSites ==
    /\ family = "claude"
    /\ last.op = "claude.update_token"
    /\ last.ret.ok
    /\ last.args[1] = "acme"
    /\ Timestamps(SitesOf("claude")["acme"].metadata) = <<0, 2>>
    /\ "beta" \in DOMAIN SitesOf("claude")
    /\ Timestamps(SitesOf("claude")["beta"].metadata) = <<1, 1>>

(***************************************************************************)
(* C31.  After a sync_to_settings that returned Ok, the settings file      *)
(* holds an object whose env is an object with ANTHROPIC_AUTH_TOKEN equal  *)
(* to the token of the active configuration, whatever the file held        *)
(* before the call.  C31_TokenWritten is the statement for every file the  *)
(* call can find, C31_TokenWrittenInObject the one for the files whose env *)
(* is absent or an object (a missing file, an unparsable one, a top level  *)
(* that is null or an array included).                                     *)
(***************************************************************************)
TokenInEnv(file, token) ==
    /\ file.exists /\ file.parses
    /\ is_object(file.doc[1])
    /\ is_some(json_get(file.doc[1], "env"))
    /\ is_object(file.doc[1].o["env"])
    /\ json_get(file.doc[1].o["env"], "ANTHROPIC_AUTH_TOKEN") = Some(JStr(token))

C31_TokenWritten == JustSynced => TokenInEnv(settings_file, last.args[1].token)

C31_TokenWrittenInObject ==
    (JustSynced /\ EnvIsObject(last.found.files[1])) =>
        TokenInEnv(settings_file, last.args[1].token)

\* a Vertex sync found a file whose env is a text, returned Ok, and left the
\* very file it found
C31_Witness ==
    /\ JustSynced
    /\ last.args[1].vertex.enabled
    /\ ~EnvIsObject(last.found.files[1])
    /\ last.wrote[1] = last.found.files[1]
    /\ ~TokenInEnv(settings_file, last.args[1].token)

\* a sync found null at the top level, returned Ok, and left the token in a
\* new env object
C31_WitnessInObject ==
    /\ JustSynced
    /\ last.found.files[1] = FileOf(JNull)
    /\ TokenInEnv(settings_file, last.args[1].token)
    /\ DOMAIN TopOf(settings_file) = {"env"}

(***************************************************************************)
(* C32.  switch_opencode_config checks, in this order, that the main       *)
(* provider is stored, that the main model is one of its models, that the  *)
(* small provider is stored and that the small model is one of its models. *)
(* At the first check that fails it returns the error of that check,       *)
(* naming the provider or model, and config.json and opencode.json are as  *)
(* they were.  When it returns Ok the stored reference holds exactly the   *)
(* four names given.                                                       *)
(***************************************************************************)
\* the first check that fails: the opening of its message and the name in it
FirstMissing(providers, mp, mm, sp, sm) ==
    IF ~contains_key(providers, mp) THEN <<"main model Provider '", mp>>
    ELSE IF ~contains_key(providers[mp].models, mm) THEN <<"main model '", mm>>
    ELSE IF ~contains_key(providers, sp) THEN <<"small model Provider '", sp>>
    ELSE IF ~contains_key(providers[sp].models, sm) THEN <<"small model '", sm>>
    ELSE <<>>

ValidatedInOrder ==
    (last'.op = "switch_opencode_config" /\ StoreReads("opencode")) =>
        LET a == last'.args
            missing == FirstMissing(ProvidersOf, a[1], a[2], a[3], a[4]) IN
        /\ missing # <<>> =>
              /\ ~last'.ret.ok
              /\ SubSeq(last'.ret.err, 1, 2) = missing
              /\ global_config_file' = global_config_file
              /\ opencode_json' = opencode_json
        /\ last'.ret.ok =>
              /\ missing = <<>>
              /\ StoredRef("opencode")' =
                    Some([main |-> [provider |-> a[1], model |-> a[2]],
                          small |-> [provider |-> a[3], model |-> a[4]]])

C32_ValidatedInOrder == [][ValidatedInOrder]_vars

\* the main model and the small provider are both missing, and the error is
\* the one of the main model; an earlier switch left its reference and output
C32_Witness ==
    /\ last.op = "switch_opencode_config"
    /\ ~last.ret.ok
    /\ StoreReads("opencode")
    /\ contains_key(ProvidersOf, last.args[1])
    /\ ~contains_key(ProvidersOf[last.args[1]].models, last.args[2])
    /\ ~contains_key(ProvidersOf, last.args[3])
    /\ last.ret.err[1] = "main model '"
    /\ is_some(StoredRef("opencode"))
    /\ opencode_json.exists

(***************************************************************************)
(* The switch specification: two processes run `cc` at the same time, each *)
(* switching the active configuration of one family once, while a third    *)
(* session deletes providers from the OpenCode store.  A switch is three   *)
(* steps that other processes can run between: its reads (the validation   *)
(* against the credential store and read_global_config, with the new       *)
(* reference set in memory), its write of config.json, and its resolution  *)
(* and synchronization.  Nothing in the program locks a file.              *)
(* in_flight[p] holds the call of process p: what it read and what it is   *)
(* about to write.                                                         *)
(***************************************************************************)
SwitchCalls ==
    {[op |-> "switch_claude_config", args |-> <<"acme", "primary">>],
     [op |-> "switch_codex_config", args |-> <<"acme", "primary">>],
     [op |-> "switch_opencode_config", args |-> <<"openai", "gpt", "local", "gpt">>]}

\* what the reads of a switch give: the GlobalConfig to write and, for
\* OpenCode, the provider store the call keeps in memory
SwitchRead(global_config, opencode_config) ==
    Ok([global_config |-> GlobalConfig_update_timestamp(global_config),
        opencode_config |-> opencode_config])

switch_claude_config_reads(site_name, token_name) ==
    LET s == claude_get_site(site_name) IN
    IF ~s.ok THEN s ELSE
    IF ~is_some(unwrap(s.val)) THEN Err(site_missing(site_name)) ELSE
    IF ~contains_key(unwrap(unwrap(s.val)).tokens, token_name)
    THEN Err(token_missing(token_name, site_name)) ELSE
    LET g == read_global_config(global_config_file) IN
    IF ~g.ok THEN g ELSE
    SwitchRead([unwrap(g.val) EXCEPT !.active.claude =
                    Some(ClaudeActiveReference(site_name, token_name))], None)

switch_codex_config_reads(site_name, api_key_name) ==
    LET s == codex_get_site(site_name) IN
    IF ~s.ok THEN s ELSE
    IF ~is_some(unwrap(s.val)) THEN Err(site_missing(site_name)) ELSE
    IF ~contains_key(unwrap(unwrap(s.val)).api_keys, api_key_name)
    THEN Err(api_key_missing(api_key_name, site_name)) ELSE
    LET g == read_global_config(global_config_file) IN
    IF ~g.ok THEN g ELSE
    SwitchRead([unwrap(g.val) EXCEPT !.active.codex =
                    Some(CodexActiveReference(site_name, api_key_name))], None)

switch_opencode_config_reads(main_provider, main_model, small_provider, small_model) ==
    LET c == opencode_read_config IN
    IF ~c.ok THEN c ELSE
    LET opencode_config == unwrap(c.val) IN
    IF ~contains_key(opencode_config.providers, main_provider)
    THEN Err(<<"main model Provider '", main_provider, "' does not exist">>) ELSE
    IF ~contains_key(opencode_config.providers[main_provider].models, main_model)
    THEN Err(<<"main model '", main_model, "' does not exist in Provider '",
               main_provider, "'">>) ELSE
    IF ~contains_key(opencode_config.providers, small_provider)
    THEN Err(<<"small model Provider '", small_provider, "' does not exist">>) ELSE
    IF ~contains_key(opencode_config.providers[small_provider].models, small_model)
    THEN Err(<<"small model '", small_model, "' does not exist in Provider '",
               small_provider, "'">>) ELSE
    LET g == read_global_config(global_config_file) IN
    IF ~g.ok THEN g ELSE
    SwitchRead([unwrap(g.val) EXCEPT !.active.opencode =
                    Some(OpenCodeActiveReference(
                             OpenCodeModelReference(main_provider, main_model),
                             OpenCodeModelReference(small_provider, small_model)))],
               Some(opencode_config))

\* the target files and directories as they are, with the result of a call
Targets(ret) ==
    [settings_file |-> settings_file, auth |-> codex_auth_json, toml |-> codex_config_toml,
     opencode_json |-> opencode_json, dirs |-> target_dirs, ret |-> ret]

\* the last step of switch_claude_config: get_active_claude_config reads
\* config.json and the store again, then sync_to_settings
switch_claude_config_syncs ==
    LET a == get_active_claude_config(global_config_file) IN
    IF ~a.ok THEN Targets(a) ELSE
    IF ~is_some(unwrap(a.val))
    THEN Targets(Err(<<"cannot get the active Claude config">>)) ELSE
    LET y == sync_to_settings(unwrap(unwrap(a.val)), NoFault) IN
    [Targets(y.ret) EXCEPT !.settings_file = y.file]

switch_codex_config_syncs ==
    LET a == get_active_codex_config(global_config_file) IN
    IF ~a.ok THEN Targets(a) ELSE
    IF ~is_some(unwrap(a.val))
    THEN Targets(Err(<<"cannot get the active Codex config">>)) ELSE
    LET y == sync_to_codex(unwrap(unwrap(a.val)), NoFault) IN
    [Targets(y.ret) EXCEPT !.auth = y.auth, !.toml = y.toml, !.dirs = y.dirs]

\* the last step of switch_opencode_config: from_reference on the store the
\* call read at its start, then sync_to_opencode, which reads the store again
switch_opencode_config_syncs(reference, opencode_config) ==
    LET a == OpenCodeActiveConfig_from_reference(reference, opencode_config) IN
    IF ~a.ok THEN Targets(a) ELSE
    LET y == sync_to_opencode(unwrap(a.val), NoFault) IN
    [Targets(y.ret) EXCEPT !.opencode_json = y.file, !.dirs = y.dirs]

SwitchReads(p, c) ==
    /\ in_flight[p].pc = "idle"
    /\ LET a == c.args
           r == CASE c.op = "switch_claude_config" -> switch_claude_config_reads(a[1], a[2])
                  [] c.op = "switch_codex_config" -> switch_codex_config_reads(a[1], a[2])
                  [] c.op = "switch_opencode_config" ->
                         switch_opencode_config_reads(a[1], a[2], a[3], a[4])
       IN IF r.ok
          THEN /\ in_flight' = [in_flight EXCEPT ![p] =
                      [pc |-> "read", op |-> c.op, args |-> a,
                       read |-> unwrap(r.val).opencode_config,
                       pending |-> Some(unwrap(r.val).global_config),
                       found |-> None, ret |-> OkUnit]]
               /\ UNCHANGED last
          ELSE /\ in_flight' = [in_flight EXCEPT ![p] =
                      [pc |-> "done", op |-> c.op, args |-> a, read |-> None,
                       pending |-> None, found |-> None, ret |-> r]]
               /\ Call(c.op, a, r)
    /\ UNCHANGED <<family, now, target_dirs, global_config_file, claude_files, codex_files,
                   gemini_files, opencode_files>>

\* a write of config.json that reads the file again and sets its own slot only
SwitchWrites_merging(p) ==
    /\ in_flight[p].pc = "read"
    /\ LET mine == unwrap(in_flight[p].pending)
           g == read_global_config(global_config_file)
           slot == CASE in_flight[p].op = "switch_claude_config" -> "claude"
                     [] in_flight[p].op = "switch_codex_config" -> "codex"
                     [] in_flight[p].op = "switch_opencode_config" -> "opencode"
           merged == [mine EXCEPT !.active =
                         [unwrap(g.val).active EXCEPT ![slot] = mine.active[slot]]]
       IN global_config_file' = write_global_config(global_config_file, merged, NoFault).file
    /\ in_flight' = [in_flight EXCEPT ![p].pc = "wrote",
                                      ![p].found = Some(global_config_file)]
    /\ UNCHANGED <<family, now, last, target_dirs, claude_files, codex_files, gemini_files,
                   opencode_files>>

\* write_global_config(&global_config): the whole document, as the call read
\* it, with its own reference
SwitchWrites(p) ==
    /\ in_flight[p].pc = "read"
    /\ global_config_file' =
          write_global_config(global_config_file, unwrap(in_flight[p].pending), NoFault).file
    /\ in_flight' = [in_flight EXCEPT ![p].pc = "wrote",
                                      ![p].found = Some(global_config_file)]
    /\ UNCHANGED <<family, now, last, target_dirs, claude_files, codex_files, gemini_files,
                   opencode_files>>

SwitchSyncs(p) ==
    /\ in_flight[p].pc = "wrote"
    /\ LET c == in_flight[p]
           y == CASE c.op = "switch_claude_config" -> switch_claude_config_syncs
                  [] c.op = "switch_codex_config" -> switch_codex_config_syncs
                  [] c.op = "switch_opencode_config" ->
                         switch_opencode_config_syncs(
                             unwrap(unwrap(c.pending).active.opencode), unwrap(c.read))
       IN /\ settings_file' = y.settings_file
          /\ codex_auth_json' = y.auth
          /\ codex_config_toml' = y.toml
          /\ opencode_json' = y.opencode_json
          /\ target_dirs' = y.dirs
          /\ in_flight' = [in_flight EXCEPT ![p].pc = "done", ![p].ret = y.ret]
          /\ Call(c.op, c.args, y.ret)
    /\ UNCHANGED <<family, now, global_config_file, claude_config_file, codex_config_file,
                   gemini_files, opencode_config_file>>

InitSwitch ==
    /\ family = "opencode"
    /\ now = 0
    /\ in_flight = [p \in Procs |-> NoCall]
    /\ global_config_file = NoFile
    /\ claude_config_file = FilledClaudeStore
    /\ settings_file = NoFile
    /\ codex_config_file = FilledCodexStore
    /\ codex_auth_json = NoFile
    /\ codex_config_toml = NoFile
    /\ gemini_config_file = NoFile
    /\ gemini_env_file = NoFile
    /\ gemini_settings_file = NoFile
    /\ opencode_config_file = FilledOpenCodeStore
    /\ opencode_json = NoFile
    /\ target_dirs = {".claude"}
    /\ last = [op |-> "new", args |-> <<>>, ret |-> OkUnit]

NextSwitch ==
    \/ \E p \in Procs, c \in SwitchCalls : SwitchReads(p, c)
    \/ \E p \in Procs : SwitchWrites(p)
    \/ \E p \in Procs : SwitchSyncs(p)
    \/ \E n \in Providers :
          OpenCodeStoreCall("opencode.delete_provider", <<n>>,
                            opencode_delete_provider(n, NoFault))

SpecSwitch == InitSwitch /\ [][NextSwitch]_vars

(***************************************************************************)
(* C33.  After a successful OpenCode sync the output's model is            *)
(* "<main provider>/<main model>", its small_model is                      *)
(* "<small provider>/<small model>", and both providers are keys of the    *)
(* output's provider map, also when another process changed the store      *)
(* between the resolution and the sync.  C33_ReferencesEmbedded is the     *)
(* statement for every successful switch_opencode_config,                  *)
(* C33_ReferencesEmbeddedWhenStored the one for those whose sync found     *)
(* both providers in the store.                                            *)
(***************************************************************************)
Embedded(file, a) ==
    /\ file.exists /\ file.parses
    /\ file.doc[1].model = <<a[1], "/", a[2]>>
    /\ file.doc[1].small_model = <<a[3], "/", a[4]>>
    /\ {a[1], a[3]} \subseteq DOMAIN file.doc[1].provider

OpenCodeSynced(p) ==
    /\ in_flight[p].op = "switch_opencode_config"
    /\ SwitchSyncs(p)
    /\ in_flight'[p].ret.ok

C33_ReferencesEmbedded ==
    [][\A p \in Procs : OpenCodeSynced(p) => Embedded(opencode_json', in_flight[p].args)]_vars

C33_ReferencesEmbeddedWhenStored ==
    [][\A p \in Procs :
          (OpenCodeSynced(p)
              /\ {in_flight[p].args[1], in_flight[p].args[3]} \subseteq DOMAIN ProvidersOf) =>
                  Embedded(opencode_json', in_flight[p].args)]_vars

\* the switch returned Ok and its output names openai in `model` without
\* embedding it: the provider was deleted after the switch had read the store
C33_Witness ==
    \E p \in Procs :
        /\ in_flight[p].op = "switch_opencode_config"
        /\ in_flight[p].pc = "done"
        /\ in_flight[p].ret.ok
        /\ contains_key(unwrap(in_flight[p].read).providers, "openai")
        /\ ~contains_key(ProvidersOf, "openai")
        /\ opencode_json.exists
        /\ opencode_json.doc[1].model = <<"openai", "/", "gpt">>
        /\ DOMAIN opencode_json.doc[1].provider = {"local"}

\* the switch returned Ok over the full store and embedded both providers
C33_WitnessWhenStored ==
    \E p \in Procs :
        /\ in_flight[p].op = "switch_opencode_config"
        /\ in_flight[p].pc = "done"
        /\ in_flight[p].ret.ok
        /\ Embedded(opencode_json, in_flight[p].args)
        /\ DOMAIN opencode_json.doc[1].provider = {"openai", "local"}

(***************************************************************************)
(* C34.  An optional field of a stored site (description, base_url, model, *)
(* and the other optional settings of a Codex site) that holds a value     *)
(* holds a value after every store operation that leaves the site in the   *)
(* store: an update overwrites it or, given None, leaves it.  The editors  *)
(* turn an empty input into None, so an emptied field keeps its old value. *)
(***************************************************************************)
\* the editors' `if input.is_empty() { None } else { Some(input) }`
input_to_option(input) == IF input = "" THEN None ELSE Some(input)

\* the optional fields of a site that hold a value
FieldsSet(site) ==
    {k \in DOMAIN site.config \ {"vertex"} : is_some(site.config[k])}
    \cup (IF is_some(site.metadata.description) THEN {"description"} ELSE {})

StaysSet ==
    \A fam \in SingleSecretFamilies, s \in Sites :
        (family = fam /\ StoreReads(fam) /\ StoreReads(fam)'
            /\ s \in DOMAIN SitesOf(fam) /\ s \in DOMAIN SitesOf(fam)') =>
                FieldsSet(SitesOf(fam)[s]) \subseteq FieldsSet(SitesOf(fam)'[s])

C34_NeverUnset == [][StaysSet]_vars

\* the editor of a Gemini site was left with an empty Base URL and a new
\* model: the update returned Ok and the base_url set earlier is still there
C34_Witness ==
    /\ family = "gemini"
    /\ last.op = "gemini.update_site_config"
    /\ last.ret.ok
    /\ last.args[2] = input_to_option("")
    /\ last.args[3] = input_to_option("gemini-pro")
    /\ FieldsSet(SitesOf("gemini")["acme"]) = {"base_url", "model"}
    /\ SitesOf("gemini")["acme"].config.base_url = Some("https://proxy.test")

(***************************************************************************)
(* C35.  A successful clear_<family>_active leaves the family's slot of    *)
(* config.json empty, so that a get_active_<family> called next returns    *)
(* Ok(None), and leaves the family's credential store and its target files *)
(* as they were: the secret of the last sync is still in the target file.  *)
(***************************************************************************)
\* what get_active_<family> returns when called now
GetActiveNow(fam) ==
    CASE fam = "claude" -> get_active_claude_config(global_config_file)
      [] fam = "codex" -> get_active_codex_config(global_config_file)
      [] fam = "gemini" -> get_active_gemini_config(global_config_file)
      [] fam = "opencode" -> get_active_opencode_config(global_config_file)

ClearedOnly ==
    \A fam \in Families :
        (last'.op = ClearOp[fam] /\ last'.ret.ok) =>
            /\ StoredRef(fam)' = None
            /\ GetActiveNow(fam)' = Ok(None)
            /\ StoreOf[fam]' = StoreOf[fam]
            /\ TargetsOf(fam)' = TargetsOf(fam)

C35_ClearedOnly == [][ClearedOnly]_vars

\* Gemini was switched to acme/primary and then cleared: the slot is empty
\* and .env still holds the key of the site
C35_Witness ==
    /\ last.op = "clear_gemini_active"
    /\ last.ret.ok
    /\ StoredRef("gemini") = None
    /\ contains_key(SitesOf("gemini"), "acme")
    /\ contains_key(SecretsOf("gemini", "acme"), "primary")
    /\ gemini_env_file.exists /\ gemini_env_file.parses
    /\ \E i \in LinesOf(gemini_env_file.doc[1], "GEMINI_API_KEY") :
          gemini_env_file.doc[1][i][3] = SecretsOf("gemini", "acme")["primary"]

(***************************************************************************)
(* C36.  get_active_<family> changes nothing: whether it returns Ok(None), *)
(* a configuration or an error, config.json, the four credential stores,   *)
(* the target files and the target directories are as they were, and a     *)
(* second call right after it returns the same result.                     *)
(***************************************************************************)
EveryFile ==
    <<global_config_file, claude_files, codex_files, gemini_files, opencode_files,
      target_dirs>>

ReadsOnly ==
    \A fam \in Families :
        last'.op = GetActiveOp[fam] =>
            /\ EveryFile' = EveryFile
            /\ GetActiveNow(fam)' = last'.ret

C36_ReadsOnly == [][ReadsOnly]_vars

\* get_active_claude_config returned the error of a reference whose site was
\* removed; the reference is still in config.json and a second call fails too
C36_Witness ==
    /\ last.op = "get_active_claude_config"
    /\ ~last.ret.ok
    /\ is_some(StoredRef("claude"))
    /\ ~contains_key(SitesOf("claude"), unwrap(StoredRef("claude")).site)
    /\ settings_file.exists
    /\ GetActiveNow("claude") = last.ret

(***************************************************************************)
(* C37.  The four slots live in one document that every switch reads,      *)
(* changes in memory and writes back whole.  The write of a switch leaves  *)
(* config.json with the slots the switch read, its own slot set, whatever  *)
(* the file holds at the write: a reference that another process stored   *)
(* in between is gone.  Two processes switching different families can     *)
(* both return Ok while config.json holds one of the two references, and   *)
(* the other family's target file holds a configuration whose reference is *)
(* not stored.                                                             *)
(***************************************************************************)
SlotOf ==
    [switch_claude_config |-> "claude", switch_codex_config |-> "codex",
     switch_opencode_config |-> "opencode"]

\* the slots of config.json as the file holds them
SlotsOf(file) == unwrap(read_global_config(file).val).active

WholeDocumentWrite ==
    \A p \in Procs :
        SwitchWrites(p) =>
            LET mine == SlotOf[in_flight[p].op]
                read == unwrap(in_flight[p].pending).active IN
            /\ SlotsOf(global_config_file')[mine] = read[mine]
            /\ is_some(read[mine])
            /\ \A fam \in Families \ {mine} :
                  SlotsOf(global_config_file')[fam] = read[fam]

C37_WholeDocumentWrite == [][WholeDocumentWrite]_vars

\* switch_claude_config and switch_codex_config both returned Ok; config.json
\* holds the Codex reference only, and settings.json holds the token of the
\* Claude reference that is not stored
C37_Witness ==
    \E p \in Procs, q \in Procs :
        /\ in_flight[p].op = "switch_claude_config"
        /\ in_flight[p].pc = "done" /\ in_flight[p].ret.ok
        /\ in_flight[q].op = "switch_codex_config"
        /\ in_flight[q].pc = "done" /\ in_flight[q].ret.ok
        /\ SlotsOf(global_config_file).claude = None
        /\ SlotsOf(global_config_file).codex = Some(CodexActiveReference("acme", "primary"))
        /\ TokenInEnv(settings_file, SecretsOf("claude", "acme")["primary"])
        /\ codex_auth_json.exists

(***************************************************************************)
(* The detection specification: a `cc opencode` session that works on the  *)
(* provider store and saves the result of a site detection to a provider   *)
(* (commands/opencode.rs, "保存检测结果到配置").                           *)
(***************************************************************************)
SiteDetectionResults ==
    {[detected_at |-> 0, is_available |-> TRUE, api_key_valid |-> TRUE,
      available_models |-> <<"gpt">>, response_time_ms |-> Some(120),
      error_message |-> None],
     [detected_at |-> 0, is_available |-> FALSE, api_key_valid |-> FALSE,
      available_models |-> <<>>, response_time_ms |-> None,
      error_message |-> Some("connection refused")]}

save_site_detection(provider_name, result, fails) ==
    LET r == opencode_read_config IN
    IF ~r.ok THEN Unchanged(opencode_config_file, r) ELSE
    LET config == unwrap(r.val) IN
    IF ~contains_key(config.providers, provider_name)
    THEN Unchanged(opencode_config_file, Err(<<"Provider does not exist">>))
    ELSE opencode_write_config(
            [config EXCEPT !.providers[provider_name].site_detection = Some(result)], fails)

SaveSiteDetection(n, result) ==
    OpenCodeStoreCall("opencode.save_site_detection", <<n, result>>,
                      save_site_detection(n, result, NoFault))

NextDetect ==
    \/ OpenCodeStoreSession
    \/ \E n \in Providers, result \in SiteDetectionResults : SaveSiteDetection(n, result)

SpecDetect == Init /\ [][NextDetect]_vars

(***************************************************************************)
(* C38.  What is stored with a provider is read back: after a successful   *)
(* add_provider the provider get_provider returns has the description      *)
(* given, after a successful update_provider_metadata with a description   *)
(* it has that description, and after a successful save_site_detection it  *)
(* has the result saved.  C38_Persisted is the statement;                  *)
(* C38_PersistedOptions is the same for the fields of a provider that are  *)
(* written to the store document (name, npm, base URL, API key).           *)
(***************************************************************************)
Persisted ==
    \A n \in Providers :
        (last'.ret.ok /\ last'.args # <<>> /\ last'.args[1] = n) =>
            /\ last'.op = "opencode.add_provider" =>
                  ProviderOf(n)'.metadata.description = last'.args[5]
            /\ (last'.op = "opencode.update_provider_metadata" /\ is_some(last'.args[5])) =>
                  ProviderOf(n)'.metadata.description = last'.args[5]
            /\ last'.op = "opencode.save_site_detection" =>
                  ProviderOf(n)'.site_detection = Some(last'.args[2])

PersistedOptions ==
    \A n \in Providers :
        (last'.ret.ok /\ last'.op = "opencode.add_provider" /\ last'.args[1] = n) =>
            /\ ProviderOf(n)'.name = n
            /\ ProviderOf(n)'.options = [base_url |-> last'.args[2], api_key |-> last'.args[3]]
            /\ ProviderOf(n)'.npm = last'.args[4]

C38_Persisted == [][Persisted]_vars

C38_PersistedOptions == [][PersistedOptions]_vars

\* a detection result was saved to openai with Ok, and the provider read back
\* has none
C38_Witness ==
    /\ last.op = "opencode.save_site_detection"
    /\ last.ret.ok
    /\ last.args[1] = "openai"
    /\ last.args[2].is_available
    /\ contains_key(ProvidersOf, "openai")
    /\ ProviderOf("openai").site_detection = None

\* openai was added with its URL and key, which are read back
C38_WitnessOptions ==
    /\ last.op = "opencode.add_provider"
    /\ last.ret.ok
    /\ last.args[1] = "openai"
    /\ ProviderOf("openai").options.api_key = ApiKeyOf["openai"]

(***************************************************************************)
(* The status specification: the cross-family session, in which the        *)
(* program also asks whether anything is configured.                       *)
(***************************************************************************)
has_any_config(file) ==
    LET g == read_global_config(file) IN
    IF ~g.ok THEN g ELSE Ok(is_some(unwrap(g.val).active.claude))

HasAnyConfig ==
    /\ Call("has_any_config", <<>>, has_any_config(global_config_file))
    /\ UNCHANGED <<family, now, in_flight, target_dirs, global_config_file, claude_files,
                   codex_files, gemini_files, opencode_files>>

NextStatus == NextFrame \/ HasAnyConfig

SpecStatus == InitFrame /\ [][NextStatus]_vars

(***************************************************************************)
(* C39.  has_any_config returns Ok(true) exactly when config.json holds an *)
(* active reference for at least one of the four families.                 *)
(* C39_AnyActive is the statement; C39_TrueOnlyIfActive is its direction   *)
(* from the result to the store.                                           *)
(***************************************************************************)
SomeActive == \E fam \in Families : is_some(StoredRef(fam))

C39_AnyActive ==
    (last.op = "has_any_config" /\ last.ret.ok) => (unwrap(last.ret.val) <=> SomeActive)

C39_TrueOnlyIfActive ==
    (last.op = "has_any_config" /\ last.ret.ok) => (unwrap(last.ret.val) => SomeActive)

\* Codex is the only family with an active reference and has_any_config
\* returned Ok(false)
C39_Witness ==
    /\ last.op = "has_any_config"
    /\ last.ret = Ok(FALSE)
    /\ is_some(StoredRef("codex"))
    /\ ~is_some(StoredRef("claude"))

\* Claude is active and has_any_config returned Ok(true)
C39_WitnessOfTrue ==
    /\ last.op = "has_any_config"
    /\ last.ret = Ok(TRUE)
    /\ is_some(StoredRef("claude"))


(***************************************************************************)
(* The Gemini specification: a Gemini session over a filled store, with    *)
(* the synchronizer also called directly, while the user keeps             *)
(* ~/.gemini/settings.json.                                                *)
(***************************************************************************)
GeminiSettingsByHand == FileOf([theme |-> "dark", selectedAuthType |-> "gemini-api-key"])
GeminiSettingsDocs == {NoFile, Garbage, GeminiSettingsByHand}

\* the user (or the Gemini CLI) rewrites ~/.gemini/settings.json
EditGeminiSettings(d) ==
    /\ family = "gemini"
    /\ gemini_settings_file' = d
    /\ target_dirs' = IF d.exists THEN create_dir_all(".gemini") ELSE target_dirs
    /\ Call("edit", <<>>, OkUnit)
    /\ UNCHANGED <<family, now, in_flight, global_config_file, gemini_config_file,
                   gemini_env_file, claude_files, codex_files, opencode_files>>

\* the active configurations handed to sync_to_gemini directly
GeminiHandedConfigs ==
    {c \in GeminiActiveConfigs : c.api_key = SecretValueSeq[1] /\ c.model = None}

InitGemini ==
    /\ InitFrame
    /\ family = "gemini"

NextGemini ==
    \/ \E s \in Sites :
          GeminiStoreCall("gemini.delete_site", <<s>>, gemini_delete_site(s, NoFault))
    \/ GetActiveGemini
    \/ \E s \in Sites, k \in SecretNames, f \in GeminiFaults : SwitchGemini(s, k, f)
    \/ ClearGemini(NoFault)
    \/ \E d \in GeminiSettingsDocs : EditGeminiSettings(d)
    \/ \E c \in GeminiHandedConfigs, f \in {NoFault, {".env"}} : SyncToGemini(c, f)

SpecGemini == InitGemini /\ [][NextGemini]_vars

(***************************************************************************)
(* C40.  Gemini sync writes only ~/.gemini/.env: ~/.gemini/settings.json   *)
(* is the same before and after every sync_to_gemini and every             *)
(* switch_gemini_config call, whether the call succeeds or fails.          *)
(***************************************************************************)
GeminiSyncOps == {"sync_to_gemini", "switch_gemini_config"}

SettingsUntouched ==
    last'.op \in GeminiSyncOps => gemini_settings_file' = gemini_settings_file

C40_SettingsUntouched == [][SettingsUntouched]_vars

\* a sync has just rewritten .env next to a settings.json the user keeps
C40_Witness ==
    /\ last.op \in GeminiSyncOps
    /\ last.ret.ok
    /\ gemini_env_file.exists
    /\ gemini_settings_file = GeminiSettingsByHand

\* a switch has just failed next to a settings.json the user keeps
C40_WitnessOfFailure ==
    /\ last.op = "switch_gemini_config"
    /\ ~last.ret.ok
    /\ gemini_settings_file = GeminiSettingsByHand

====
